---- MODULE Spec2Model ----
(***************************************************************************)
(* Reconciliation engine of the fractional job scraper                     *)
(* (main.py, FractionalJobOrchestrator): upsert by natural key, staleness  *)
(* deactivation, run accounting and the daily snapshot, over the           *)
(* fractional_jobs table of database.py.                                   *)
(*                                                                         *)
(* Time is the value datetime.utcnow() returns, in hours.  Strings the     *)
(* code slices or searches (job urls, source ids) are sequences of         *)
(* one-character strings; Python None is NULL for text columns.            *)
(***************************************************************************)
EXTENDS Integers, Sequences, FiniteSets, TLC

VARIABLES
    store,      \* rows of the fractional_jobs table (FractionalJob)
    nextId,     \* next value of the autoincrement primary key
    logs,       \* rows of the scrape_logs table (ScrapeLog), in creation order
    snapshots,  \* rows of the listing_snapshots table (ListingSnapshot)
    compSnapshots,  \* rows of the compensation_snapshots table (CompensationSnapshot)
    now,        \* datetime.utcnow(), in hours
    run,        \* locals of the scrape_* call in progress (or pc = "idle"), and
                \* two history fields: sighted, the source ids of the listings
                \* the source yielded, and reactivated, those of the rows an
                \* upsert of this run found inactive
    last        \* what the last step did (history, read only by properties)

vars == <<store, nextId, logs, snapshots, compSnapshots, now, run, last>>

-----------------------------------------------------------------------------
(* Bounds of the model *)

MaxFeed == 2           \* listings a source yields in one run
MaxRuns == 2           \* scrape runs (rows of scrape_logs) under Spec
MaxSnapRuns == 1       \* scrape runs under SpecSnap
MaxSnapshots == 1      \* create_daily_snapshot calls under SpecSnap
MaxLogRuns == 1        \* scrape runs under SpecLog
MaxAggRows == 3        \* rows of fractional_jobs under SpecAgg
MaxAggSnapshots == 2   \* create_daily_snapshot calls under SpecAgg
MaxCompSnapshots == 2  \* create_compensation_snapshot calls under SpecAgg
MaxTitleWords == 2     \* words of a title under SpecParse
MaxHoursWords == 3     \* pieces of a text under SpecParse
MaxCompWords == 2      \* pieces of a compensation string under SpecComp
MaxMergeRuns == 2      \* scrape runs under SpecMerge
MaxConcFeed == 1       \* listings a source yields in one run under SpecConc

(* Program constants *)

StaleHours == 48       \* _deactivate_stale_jobs(..., hours=48)
SourceIdLen == 16      \* [:16] and [-16:] in job_to_db_dict
HoursPerDay == 24      \* timedelta(days=1); replace(hour=0, ...)
MinSample == 3         \* if len(jobs) >= 3 in create_compensation_snapshot

NULL == "None"

-----------------------------------------------------------------------------
(* String helpers: Python's `in`, split(...)[-1], [:n], [-n:] *)

Min(a, b) == IF a <= b THEN a ELSE b
Max(a, b) == IF a >= b THEN a ELSE b

Occurrences(s, pat) ==
    {i \in 1..Len(s) : i + Len(pat) - 1 <= Len(s)
                       /\ SubSeq(s, i, i + Len(pat) - 1) = pat}

Contains(s, pat) == Occurrences(s, pat) # {}

\* s.split(pat)[-1]: what follows the last occurrence of pat
AfterLast(s, pat) ==
    IF ~Contains(s, pat) THEN s
    ELSE LET m == CHOOSE i \in Occurrences(s, pat) :
                      \A j \in Occurrences(s, pat) : j <= i
         IN SubSeq(s, m + Len(pat), Len(s))

Prefix(s, n) == SubSeq(s, 1, Min(n, Len(s)))
Suffix(s, n) == SubSeq(s, Max(1, Len(s) - n + 1), Len(s))

-----------------------------------------------------------------------------
(* What the sources yield *)

JK == <<"j", "k", "=">>

\* an Indeed posting url carrying a 16 character job key
UrlJk == <<"v", "?">> \o JK \o
         <<"0","1","2","3","4","5","6","7","8","9","a","b","c","d","e","f">>
\* a posting url without a job key
UrlPlain == <<"v", "/", "x">>

IndeedUrls == {UrlJk, UrlPlain}

Titles == {"Fractional CFO"}
CompanyUrls == {"http://acme"}

\* one row of the JobSpy data frame, as row.to_dict() (a missing title is None)
IndeedRaws ==
    [job_url : IndeedUrls, title : Titles \cup {NULL}, company_url : CompanyUrls \cup {NULL}]

SlugA == <<"c", "f", "o">>
SlugB == <<"v", "p">>

\* FractionalJobsListing: title is always a str (_parse_job_card)
FjRaws ==
    [source_id : {SlugA, SlugB}, title : Titles, company_url : CompanyUrls]

Sources == {"indeed", "fractionaljobs"}
\* the salts of hash() (PYTHONHASHSEED) of the processes that run the scraper
HashSeeds == {1, 2}
SeedDigit == <<"1", "2", "3", "4", "5", "6", "7", "8", "9">>

\* str(hash(job_url)): salted per process, so a function of the url and of the
\* process's salt; taken to be free of collisions
HashStr(url, seed) == url \o <<"#", SeedDigit[seed]>>

\* job_url.split('jk=')[-1][:16] if 'jk=' in job_url else str(hash(job_url))[-16:]
SourceIdOf(job_url, seed) ==
    IF Contains(job_url, JK)
    THEN Prefix(AfterLast(job_url, JK), SourceIdLen)
    ELSE Suffix(HashStr(job_url, seed), SourceIdLen)

\* SourceIdOf, tabulated over the urls and salts of the model
SourceIdTable == [u \in IndeedUrls, s \in HashSeeds |-> SourceIdOf(u, s)]

IndeedSourceId(job_url, seed) == SourceIdTable[job_url, seed]

-----------------------------------------------------------------------------
(* database.py: FractionalJob *)

\* the mapped attributes of FractionalJob that the model carries
FractionalJobAttrs ==
    {"id", "source", "source_id", "title", "company_url",
     "date_scraped", "last_seen", "is_active",
     "location_type", "location_restriction", "location_state",
     "compensation_type", "compensation_min", "compensation_max",
     "hourly_rate_min", "hourly_rate_max",
     "monthly_retainer_min", "monthly_retainer_max"}

\* the keys whose value is a str or None
TextKeys == {"title", "company_url", "company_name_normalized"}

\* the keys whose value is a str the code searches, or None: a sequence of
\* characters, the empty one for None
SequenceKeys == {"location_state"}

\* the keys whose value is a float or None: the empty set or {amount}
NumberKeys ==
    {"compensation_min", "compensation_max", "hourly_rate_min", "hourly_rate_max",
     "monthly_retainer_min", "monthly_retainer_max"}

\* `value is None`
IsNone(key, value) ==
    \/ key \in TextKeys /\ value = NULL
    \/ key \in NumberKeys /\ value = {}
    \/ key \in SequenceKeys /\ value = <<>>

\* the natural key, indexed by idx_source_source_id (unique=True)
Key(r) == <<r.source, r.source_id>>

Row(id, src, sid, title, curl) ==
    [id |-> id, source |-> src, source_id |-> sid, title |-> title,
     company_url |-> curl, date_scraped |-> 0, last_seen |-> 0, is_active |-> TRUE]


\* the database the orchestrator opens (DATABASE_URL) may already hold listings:
\* none, or these rows, which satisfy the table's constraints
StoredRows ==
    {Row(1, "indeed", IndeedSourceId(UrlJk, 1), "Fractional CFO", "http://acme"),
     Row(3, "fractionaljobs", SlugA, "Fractional CFO", NULL)}

-----------------------------------------------------------------------------
(* scrapers/indeed_scraper.py and fractionaljobs_scraper.py: job_to_db_dict *)

\* detect_function(title) calls title.lower(): AttributeError on None
IndeedDictRaises(job) == job.title = NULL

IndeedDict(job, seed, t) ==
    [source |-> "indeed",
     source_id |-> IndeedSourceId(job.job_url, seed),
     title |-> job.title,
     company_url |-> job.company_url,
     company_name_normalized |-> "acme",
     date_scraped |-> t,
     is_active |-> TRUE,
     last_seen |-> t]

FjDict(job, t) ==
    [source |-> "fractionaljobs",
     source_id |-> job.source_id,
     title |-> job.title,
     company_url |-> job.company_url,
     company_name_normalized |-> "acme",
     date_scraped |-> t,
     is_active |-> TRUE,
     last_seen |-> t]

-----------------------------------------------------------------------------
(* main.py: _upsert_job *)

\* the query by (source, source_id)
Lookup(rows, src, sid) == {r \in rows : r.source = src /\ r.source_id = sid}

\* (mutant) the loop without `value is not None`: None overwrites
UpdateRowNoneOverwrites(existing, job_dict, t) ==
    [[k \in DOMAIN existing |->
        IF k \in DOMAIN job_dict /\ k \notin {"id", "date_scraped"}
        THEN job_dict[k]
        ELSE existing[k]]
     EXCEPT !.last_seen = t, !.is_active = TRUE]

\* (mutant) the loop without the exclusion of date_scraped
UpdateRowAllKeys(existing, job_dict, t) ==
    [[k \in DOMAIN existing |->
        IF k \in DOMAIN job_dict /\ k # "id" /\ ~IsNone(k, job_dict[k])
        THEN job_dict[k]
        ELSE existing[k]]
     EXCEPT !.last_seen = t, !.is_active = TRUE]

\* the loop over job_dict.items(), then last_seen and is_active
UpdateRow(existing, job_dict, t) ==
    [[k \in DOMAIN existing |->
        IF k \in DOMAIN job_dict /\ k \notin {"id", "date_scraped"}
           /\ ~IsNone(k, job_dict[k])
        THEN job_dict[k]
        ELSE existing[k]]
     EXCEPT !.last_seen = t, !.is_active = TRUE]

\* FractionalJob(**job_dict): the declarative constructor raises TypeError for
\* a keyword that is no attribute of the class
ConstructorRaises(job_dict) == ~(DOMAIN job_dict \subseteq FractionalJobAttrs)

\* the row of the keywords given (of the columns the dictionary names)
NewRow(job_dict, id) ==
    [k \in (DOMAIN job_dict \cap FractionalJobAttrs) \cup {"id"} |->
        IF k = "id" THEN id ELSE job_dict[k]]

\* (mutant) the update is written as a further row instead of in place
UpsertJobDup(rows, job_dict, t, id) ==
    LET found == Lookup(rows, job_dict.source, job_dict.source_id) IN
    IF found # {}
    THEN LET existing == CHOOSE r \in found : TRUE
         IN [rows |-> rows \cup {[UpdateRow(existing, job_dict, t) EXCEPT !.id = id]},
             is_new |-> FALSE, raised |-> FALSE]
    ELSE IF ConstructorRaises(job_dict)
         THEN [rows |-> rows, is_new |-> FALSE, raised |-> TRUE]
         ELSE [rows |-> rows \cup {NewRow(job_dict, id)},
               is_new |-> TRUE, raised |-> FALSE]

\* (mutant) the row is written before the constructor's TypeError surfaces
UpsertJobLeak(rows, job_dict, t, id) ==
    LET found == Lookup(rows, job_dict.source, job_dict.source_id) IN
    IF found # {}
    THEN LET existing == CHOOSE r \in found : TRUE
         IN [rows |-> (rows \ {existing}) \cup {UpdateRow(existing, job_dict, t)},
             is_new |-> FALSE, raised |-> FALSE]
    ELSE IF ConstructorRaises(job_dict)
         THEN [rows |-> rows \cup {NewRow(job_dict, id)},
               is_new |-> FALSE, raised |-> TRUE]
         ELSE [rows |-> rows \cup {NewRow(job_dict, id)},
               is_new |-> TRUE, raised |-> FALSE]

\* the outcome of _upsert_job: the table afterwards, and (is_new, ...) or a raise
UpsertJob(rows, job_dict, t, id) ==
    LET found == Lookup(rows, job_dict.source, job_dict.source_id) IN
    IF found # {}
    THEN LET existing == CHOOSE r \in found : TRUE
         IN [rows |-> (rows \ {existing}) \cup {UpdateRow(existing, job_dict, t)},
             is_new |-> FALSE, raised |-> FALSE]
    ELSE IF ConstructorRaises(job_dict)
         THEN [rows |-> rows, is_new |-> FALSE, raised |-> TRUE]
         ELSE [rows |-> rows \cup {NewRow(job_dict, id)},
               is_new |-> TRUE, raised |-> FALSE]

-----------------------------------------------------------------------------
(* main.py: _deactivate_stale_jobs *)

\* (mutant) the filter without the last_seen condition
StaleJobsNoThreshold(rows, src, seen_ids, t) ==
    {r \in rows : /\ r.source = src
                  /\ r.is_active
                  /\ (seen_ids = {} \/ r.source_id \notin seen_ids)}

\* (mutant) the filter on the seen identifiers alone
StaleJobsEveryUnseen(rows, src, seen_ids, t) ==
    {r \in rows : /\ r.is_active
                  /\ (seen_ids = {} \/ r.source_id \notin seen_ids)}

\* (mutant) the filter without the source condition
StaleJobsAnySource(rows, src, seen_ids, t) ==
    {r \in rows : /\ r.is_active
                  /\ r.last_seen < t - StaleHours
                  /\ (seen_ids = {} \/ r.source_id \notin seen_ids)}

StaleJobs(rows, src, seen_ids, t) ==
    {r \in rows : /\ r.source = src
                  /\ r.is_active
                  /\ r.last_seen < t - StaleHours
                  /\ (seen_ids = {} \/ r.source_id \notin seen_ids)}

Deactivate(rows, stale) ==
    {IF r \in stale THEN [r EXCEPT !.is_active = FALSE] ELSE r : r \in rows}

-----------------------------------------------------------------------------
(* main.py: _log_scrape_start, _log_scrape_end *)

NewLog(src, t) ==
    [source |-> src, status |-> "running",
     listings_found |-> 0, listings_new |-> 0, listings_updated |-> 0,
     listings_deactivated |-> 0, error_message |-> NULL, error_count |-> 0]

EndLog(log, t, status, found, new, updated, deactivated, error) ==
    [log EXCEPT !.status = status, !.listings_found = found,
                !.listings_new = new, !.listings_updated = updated,
                !.listings_deactivated = deactivated, !.error_message = error]

-----------------------------------------------------------------------------
(* State *)

Idle == [pc |-> "idle", source |-> NULL, found |-> 0, new |-> 0, updated |-> 0,
         errors |-> 0, seen_ids |-> {}, log |-> 0,
         sighted |-> {}, reactivated |-> {}]

Did(op) == [op |-> op, source |-> NULL, source_id |-> <<>>, prev |-> {},
            dict |-> {}, ret |-> NULL]

Init ==
    /\ store \in {{}, StoredRows}
    /\ nextId = 4
    /\ logs = <<>>
    /\ snapshots = <<>>
    /\ compSnapshots = <<>>
    /\ now = 0
    /\ run = Idle
    /\ last = Did("init")

\* the instants at which the clock is read
Instants == {0, 10, 58, 108}

Tick ==
    /\ \E t \in Instants : t > now /\ now' = t
    /\ last' = Did("tick")
    /\ UNCHANGED <<store, nextId, logs, snapshots, compSnapshots, run>>

\* scrape_indeed / scrape_fractionaljobs up to the loop: the log row, the counters
StartRun(src, maxRuns) ==
    /\ run.pc = "idle"
    /\ Len(logs) < maxRuns
    /\ logs' = Append(logs, NewLog(src, now))
    /\ run' = [Idle EXCEPT !.pc = "running", !.source = src,
                           !.log = Len(logs) + 1]
    /\ last' = Did("start")
    /\ UNCHANGED <<store, nextId, snapshots, compSnapshots, now>>

\* one iteration of the loop, for a listing with this seen-set entry, this source
\* id and this result of job_to_db_dict (the empty set when it raised)
Process(seen, sighted, dicts) ==
    LET res == IF dicts = {}
               THEN [rows |-> store, is_new |-> FALSE, raised |-> TRUE]
               ELSE UpsertJob(store, CHOOSE d \in dicts : TRUE, now, nextId)
        ret == IF res.raised THEN "error" ELSE IF res.is_new THEN "new" ELSE "updated"
        sid == IF dicts = {} THEN <<>> ELSE (CHOOSE d \in dicts : TRUE).source_id
        prev == IF dicts = {} THEN {} ELSE Lookup(store, run.source, sid)
    IN /\ store' = res.rows
       /\ nextId' = IF ret = "new" THEN nextId + 1 ELSE nextId
       /\ run' = [run EXCEPT !.found = @ + 1,
                             !.seen_ids = @ \cup {seen},
                             !.new = IF ret = "new" THEN @ + 1 ELSE @,
                             !.updated = IF ret = "updated" THEN @ + 1 ELSE @,
                             !.errors = IF ret = "error" THEN @ + 1 ELSE @,
                             !.sighted = @ \cup {sighted},
                             !.reactivated =
                                 IF ret = "updated" /\ \E r \in prev : ~r.is_active
                                 THEN @ \cup {sid} ELSE @]
       /\ last' = [op |-> "process", source |-> run.source, source_id |-> sid,
                   prev |-> prev,
                   dict |-> dicts, ret |-> ret]
       /\ UNCHANGED <<logs, snapshots, compSnapshots, now>>

\* scrape_indeed: the body of the for loop; IndeedScraper.scrape_all yields a
\* job_url once
ProcessIndeed(job, seed) ==
    /\ run.pc = "running" /\ run.source = "indeed"
    /\ run.found < MaxFeed
    /\ job.job_url \notin run.seen_ids
    /\ Process(job.job_url, IndeedSourceId(job.job_url, seed),
               IF IndeedDictRaises(job) THEN {} ELSE {IndeedDict(job, seed, now)})

\* scrape_fractionaljobs: the body of the for loop
ProcessFj(job) ==
    /\ run.pc = "running" /\ run.source = "fractionaljobs"
    /\ run.found < MaxFeed
    /\ Process(job.source_id, job.source_id, {FjDict(job, now)})

\* the source is exhausted: _deactivate_stale_jobs, _log_scrape_end, return stats
FinishRun ==
    /\ run.pc = "running"
    /\ LET stale == StaleJobs(store, run.source, run.seen_ids, now)
           deactivated == Cardinality(stale)
       IN /\ store' = Deactivate(store, stale)
          /\ logs' = [logs EXCEPT ![run.log] =
                        EndLog(@, now, "success", run.found, run.new, run.updated,
                               deactivated, NULL)]
          /\ last' = [Did("finish") EXCEPT !.source = run.source, !.prev = stale]
    /\ run' = [run EXCEPT !.pc = "idle"]
    /\ UNCHANGED <<nextId, snapshots, compSnapshots, now>>

\* an exception outside the per-record try: the except clause of scrape_*
FailRun ==
    /\ run.pc = "running"
    /\ logs' = [logs EXCEPT ![run.log] = EndLog(@, now, "failed", 0, 0, 0, 0, "error")]
    /\ run' = [run EXCEPT !.pc = "idle"]
    /\ last' = [Did("fail") EXCEPT !.source = run.source]
    /\ UNCHANGED <<store, nextId, snapshots, compSnapshots, now>>

\* a run that ends without the except clause recording it: the exception is
\* not an Exception (KeyboardInterrupt, SystemExit), or it is one of the
\* store, and the commit of _log_scrape_end in the except clause raises again
\* (no rollback is issued).  It strikes while the source yields ("yield") or
\* in the commit of the success log, after the staleness step ("finalize")
AbortStages == {"yield", "finalize"}

AbortRun(stage) ==
    /\ run.pc = "running"
    /\ LET stale == IF stage = "finalize"
                    THEN StaleJobs(store, run.source, run.seen_ids, now)
                    ELSE {}
       IN /\ store' = Deactivate(store, stale)
          /\ last' = [Did("abort") EXCEPT !.source = run.source, !.prev = stale,
                                          !.ret = stage]
    /\ run' = [run EXCEPT !.pc = "idle"]
    /\ UNCHANGED <<nextId, logs, snapshots, compSnapshots, now>>

-----------------------------------------------------------------------------
(* main.py: create_daily_snapshot *)

Midnight(t) == t - (t % HoursPerDay)

\* the value of a column; a column the model's row does not carry is null
Column(r, col) == IF col \in DOMAIN r THEN r[col] ELSE NULL

\* job.<col> or '<default>'
Label(r, col, default) == IF Column(r, col) = NULL THEN default ELSE Column(r, col)

\* (mutant) the jobs whose column is null are not counted
CountBySkipsNull(jobs, col, default) ==
    [l \in {r[col] : r \in {x \in jobs : Column(x, col) # NULL}} |->
        Cardinality({r \in jobs : Column(r, col) = l})]

\* a defaultdict(int) counted over the jobs: label -> number of jobs
CountBy(jobs, col, default) ==
    [l \in {Label(r, col, default) : r \in jobs} |->
        Cardinality({r \in jobs : Label(r, col, default) = l})]

DailySnapshot(rows, t) ==
    LET today == Midnight(t)
        active_jobs == {r \in rows : r.is_active}
    IN
    [snapshot_date |-> today,
     source |-> "all",
     by_function |-> CountBy(active_jobs, "function_category", "other"),
     by_seniority |-> CountBy(active_jobs, "seniority_tier", "unknown"),
     by_location_type |-> CountBy(active_jobs, "location_type", "unknown"),
     total_active |-> Cardinality(active_jobs),
     new_today |-> Cardinality({r \in rows : r.date_scraped >= today}),
     removed_today |-> Cardinality({r \in rows : /\ ~r.is_active
                                                 /\ r.last_seen >= today - HoursPerDay
                                                 /\ r.last_seen < today})]

CreateDailySnapshot(maxSnapshots) ==
    /\ run.pc = "idle"
    /\ Len(snapshots) < maxSnapshots
    /\ snapshots' = Append(snapshots, DailySnapshot(store, now))
    /\ last' = Did("snapshot")
    /\ UNCHANGED <<store, nextId, logs, compSnapshots, now, run>>

-----------------------------------------------------------------------------
(* main.py: create_compensation_snapshot *)

\* hourly_rate_min is the empty set for None, else the set of its value
Rate(r) == CHOOSE x \in r.hourly_rate_min : TRUE

\* the query: active, hourly_rate_min IS NOT NULL
JobsWithComp(rows) == {r \in rows : r.is_active /\ r.hourly_rate_min # {}}

\* by_function[func]: the jobs of the query with job.function_category or 'other'
FunctionJobs(rows, func) ==
    {r \in JobsWithComp(rows) : Label(r, "function_category", "other") = func}

FunctionsWithComp(rows) ==
    {Label(r, "function_category", "other") : r \in JobsWithComp(rows)}

\* [j.hourly_rate_min for j in jobs if j.hourly_rate_min]: 0.0 is falsy
HourlyRates(jobs) == {j \in jobs : Rate(j) # 0}

RECURSIVE SumRates(_)
SumRates(jobs) ==
    IF jobs = {} THEN 0
    ELSE LET j == CHOOSE x \in jobs : TRUE IN Rate(j) + SumRates(jobs \ {j})

RECURSIVE SortedRates(_)
SortedRates(jobs) ==
    IF jobs = {} THEN <<>>
    ELSE LET j == CHOOSE x \in jobs : \A y \in jobs : Rate(x) <= Rate(y)
         IN <<Rate(j)>> \o SortedRates(jobs \ {j})

\* the CompensationSnapshot of one function; a mean is <<sum, count>> for
\* sum / count, and sorted(...)[len // 2] counts from 0
CompensationSnapshot(today, func, jobs) ==
    LET hourly_rates == HourlyRates(jobs) IN
    [snapshot_date |-> today,
     function_category |-> func,
     sample_size |-> Cardinality(jobs),
     hourly_rate_min_avg |-> <<SumRates(hourly_rates), Cardinality(hourly_rates)>>,
     hourly_rate_median |->
         SortedRates(hourly_rates)[(Cardinality(hourly_rates) \div 2) + 1]]

\* sum(hourly_rates) / len(hourly_rates) raises ZeroDivisionError
CompensationRaises(rows) ==
    \E func \in FunctionsWithComp(rows) :
        /\ Cardinality(FunctionJobs(rows, func)) >= MinSample
        /\ HourlyRates(FunctionJobs(rows, func)) = {}

RECURSIVE SeqOf(_)
SeqOf(set) ==
    IF set = {} THEN <<>>
    ELSE LET x == CHOOSE y \in set : TRUE IN <<x>> \o SeqOf(set \ {x})

\* the rows one call adds; when it raises, before the commit, none is stored
CreateCompensationSnapshot ==
    /\ run.pc = "idle"
    /\ Len(compSnapshots) < MaxCompSnapshots
    /\ LET written ==
               {CompensationSnapshot(Midnight(now), func, FunctionJobs(store, func)) :
                   func \in {f \in FunctionsWithComp(store) :
                                Cardinality(FunctionJobs(store, f)) >= MinSample}}
       IN IF CompensationRaises(store)
          THEN /\ compSnapshots' = compSnapshots
               /\ last' = Did("comp_error")
          ELSE /\ compSnapshots' = compSnapshots \o SeqOf(written)
               /\ last' = [Did("comp_snapshot") EXCEPT !.prev = written]
    /\ UNCHANGED <<store, nextId, logs, snapshots, now, run>>

-----------------------------------------------------------------------------
(* Stores for the aggregations: classified listings with rates *)

AggProfiles ==
    {[function_category |-> "finance", seniority_tier |-> "c_level",
      location_type |-> "remote", hourly_rate_min |-> {100}, is_active |-> TRUE],
     [function_category |-> "finance", seniority_tier |-> "c_level",
      location_type |-> "remote", hourly_rate_min |-> {200}, is_active |-> TRUE],
     [function_category |-> "finance", seniority_tier |-> NULL,
      location_type |-> NULL, hourly_rate_min |-> {0}, is_active |-> TRUE],
     [function_category |-> NULL, seniority_tier |-> NULL,
      location_type |-> "remote", hourly_rate_min |-> {100}, is_active |-> TRUE],
     [function_category |-> "finance", seniority_tier |-> "c_level",
      location_type |-> "remote", hourly_rate_min |-> {}, is_active |-> TRUE],
     [function_category |-> "finance", seniority_tier |-> "c_level",
      location_type |-> "remote", hourly_rate_min |-> {100}, is_active |-> FALSE]}

AggRow(id, p) ==
    [id |-> id, source |-> "fractionaljobs", source_id |-> <<SeedDigit[id]>>,
     date_scraped |-> 0, last_seen |-> 0, is_active |-> p.is_active,
     function_category |-> p.function_category,
     seniority_tier |-> p.seniority_tier,
     location_type |-> p.location_type,
     hourly_rate_min |-> p.hourly_rate_min]

InitAgg ==
    /\ store \in {{AggRow(i, p[i]) : i \in 1..MaxAggRows} :
                      p \in [1..MaxAggRows -> AggProfiles]}
    /\ nextId = MaxAggRows + 1
    /\ logs = <<>>
    /\ snapshots = <<>>
    /\ compSnapshots = <<>>
    /\ now = 0
    /\ run = Idle
    /\ last = Did("init")

\* the two aggregations, in any order, over a store no run is changing
NextAgg ==
    \/ CreateDailySnapshot(MaxAggSnapshots)
    \/ CreateCompensationSnapshot

SpecAgg == InitAgg /\ [][NextAgg]_vars

-----------------------------------------------------------------------------
(* parsers.py: detect_function, detect_seniority *)

UpperChars == <<"A", "B", "C", "D", "E", "F", "G", "H", "I", "J", "K", "L", "M", "N", "O", "P", "Q", "R", "S", "T", "U", "V", "W", "X", "Y", "Z">>
LowerChars == <<"a", "b", "c", "d", "e", "f", "g", "h", "i", "j", "k", "l", "m", "n", "o", "p", "q", "r", "s", "t", "u", "v", "w", "x", "y", "z">>

\* str.lower(), for the letters A-Z
ToLower(s) ==
    [i \in DOMAIN s |->
        IF \E k \in DOMAIN UpperChars : UpperChars[k] = s[i]
        THEN LowerChars[CHOOSE k \in DOMAIN UpperChars : UpperChars[k] = s[i]]
        ELSE s[i]]

\* FUNCTION_PATTERNS, in the order of the dict literal
FUNCTION_PATTERNS ==
    <<<<"finance",
       {<<"c", "f", "o">>,
        <<"c", "h", "i", "e", "f", " ", "f", "i", "n", "a", "n", "c", "i", "a", "l">>,
        <<"c", "o", "n", "t", "r", "o", "l", "l", "e", "r">>,
        <<"f", "p", "&", "a">>,
        <<"f", "i", "n", "a", "n", "c", "e", " ", "d", "i", "r", "e", "c", "t", "o", "r">>,
        <<"v", "p", " ", "f", "i", "n", "a", "n", "c", "e">>,
        <<"h", "e", "a", "d", " ", "o", "f", " ", "f", "i", "n", "a", "n", "c", "e">>,
        <<"f", "i", "n", "a", "n", "c", "i", "a", "l">>,
        <<"a", "c", "c", "o", "u", "n", "t", "i", "n", "g">>}>>,
      <<"marketing",
       {<<"c", "m", "o">>,
        <<"c", "h", "i", "e", "f", " ", "m", "a", "r", "k", "e", "t", "i", "n", "g">>,
        <<"m", "a", "r", "k", "e", "t", "i", "n", "g">>,
        <<"b", "r", "a", "n", "d">>,
        <<"g", "r", "o", "w", "t", "h", " ", "m", "a", "r", "k", "e", "t", "i", "n", "g">>,
        <<"d", "e", "m", "a", "n", "d", " ", "g", "e", "n">>,
        <<"c", "o", "n", "t", "e", "n", "t">>,
        <<"v", "p", " ", "m", "a", "r", "k", "e", "t", "i", "n", "g">>,
        <<"h", "e", "a", "d", " ", "o", "f", " ", "m", "a", "r", "k", "e", "t", "i", "n", "g">>}>>,
      <<"sales",
       {<<"c", "r", "o">>,
        <<"c", "h", "i", "e", "f", " ", "r", "e", "v", "e", "n", "u", "e">>,
        <<"s", "a", "l", "e", "s">>, <<"r", "e", "v", "e", "n", "u", "e">>,
        <<"b", "u", "s", "i", "n", "e", "s", "s", " ", "d", "e", "v", "e", "l", "o", "p", "m", "e", "n", "t">>,
        <<"v", "p", " ", "s", "a", "l", "e", "s">>,
        <<"h", "e", "a", "d", " ", "o", "f", " ", "s", "a", "l", "e", "s">>,
        <<"c", "o", "m", "m", "e", "r", "c", "i", "a", "l">>,
        <<"g", "o", "-", "t", "o", "-", "m", "a", "r", "k", "e", "t">>,
        <<"g", "t", "m">>}>>,
      <<"product",
       {<<"c", "p", "o">>,
        <<"c", "h", "i", "e", "f", " ", "p", "r", "o", "d", "u", "c", "t">>,
        <<"p", "r", "o", "d", "u", "c", "t">>,
        <<"v", "p", " ", "p", "r", "o", "d", "u", "c", "t">>,
        <<"h", "e", "a", "d", " ", "o", "f", " ", "p", "r", "o", "d", "u", "c", "t">>}>>,
      <<"engineering",
       {<<"c", "t", "o">>,
        <<"c", "h", "i", "e", "f", " ", "t", "e", "c", "h", "n", "o", "l", "o", "g", "y">>,
        <<"e", "n", "g", "i", "n", "e", "e", "r", "i", "n", "g">>,
        <<"t", "e", "c", "h", "n", "i", "c", "a", "l">>,
        <<"a", "r", "c", "h", "i", "t", "e", "c", "t">>,
        <<"v", "p", " ", "e", "n", "g", "i", "n", "e", "e", "r", "i", "n", "g">>,
        <<"h", "e", "a", "d", " ", "o", "f", " ", "e", "n", "g", "i", "n", "e", "e", "r", "i", "n", "g">>,
        <<"s", "o", "f", "t", "w", "a", "r", "e">>}>>,
      <<"operations",
       {<<"c", "o", "o">>,
        <<"c", "h", "i", "e", "f", " ", "o", "p", "e", "r", "a", "t", "i", "n", "g">>,
        <<"o", "p", "e", "r", "a", "t", "i", "o", "n", "s">>,
        <<"o", "p", "s">>,
        <<"v", "p", " ", "o", "p", "e", "r", "a", "t", "i", "o", "n", "s">>,
        <<"h", "e", "a", "d", " ", "o", "f", " ", "o", "p", "e", "r", "a", "t", "i", "o", "n", "s">>}>>,
      <<"people",
       {<<"c", "h", "r", "o">>,
        <<"c", "h", "i", "e", "f", " ", "p", "e", "o", "p", "l", "e">>,
        <<"c", "h", "i", "e", "f", " ", "h", "u", "m", "a", "n">>,
        <<"h", "r">>,
        <<"h", "u", "m", "a", "n", " ", "r", "e", "s", "o", "u", "r", "c", "e", "s">>,
        <<"t", "a", "l", "e", "n", "t">>,
        <<"p", "e", "o", "p", "l", "e", " ", "o", "p", "s">>,
        <<"v", "p", " ", "p", "e", "o", "p", "l", "e">>,
        <<"h", "e", "a", "d", " ", "o", "f", " ", "p", "e", "o", "p", "l", "e">>,
        <<"h", "e", "a", "d", " ", "o", "f", " ", "h", "r">>}>>,
      <<"data",
       {<<"c", "d", "o">>,
        <<"c", "h", "i", "e", "f", " ", "d", "a", "t", "a">>,
        <<"d", "a", "t", "a", " ", "s", "c", "i", "e", "n", "c", "e">>,
        <<"a", "n", "a", "l", "y", "t", "i", "c", "s">>, <<"m", "l">>,
        <<"a", "i">>,
        <<"m", "a", "c", "h", "i", "n", "e", " ", "l", "e", "a", "r", "n", "i", "n", "g">>,
        <<"h", "e", "a", "d", " ", "o", "f", " ", "d", "a", "t", "a">>,
        <<"v", "p", " ", "d", "a", "t", "a">>}>>,
      <<"legal",
       {<<"g", "e", "n", "e", "r", "a", "l", " ", "c", "o", "u", "n", "s", "e", "l">>,
        <<"l", "e", "g", "a", "l">>,
        <<"c", "h", "i", "e", "f", " ", "l", "e", "g", "a", "l">>,
        <<"c", "l", "o">>, <<"c", "o", "m", "p", "l", "i", "a", "n", "c", "e">>}>>>>

\* SENIORITY_PATTERNS
SENIORITY_PATTERNS ==
    <<<<"c_level",
       {<<"c", "h", "i", "e", "f">>, <<" ", "c", "e", "o">>,
        <<" ", "c", "f", "o">>, <<" ", "c", "m", "o">>,
        <<" ", "c", "r", "o">>, <<" ", "c", "t", "o">>,
        <<" ", "c", "o", "o">>, <<" ", "c", "p", "o">>,
        <<" ", "c", "h", "r", "o">>, <<" ", "c", "d", "o">>,
        <<" ", "c", "l", "o">>}>>,
      <<"evp",
       {<<"e", "v", "p">>,
        <<"e", "x", "e", "c", "u", "t", "i", "v", "e", " ", "v", "i", "c", "e", " ", "p", "r", "e", "s", "i", "d", "e", "n", "t">>}>>,
      <<"svp",
       {<<"s", "v", "p">>,
        <<"s", "e", "n", "i", "o", "r", " ", "v", "i", "c", "e", " ", "p", "r", "e", "s", "i", "d", "e", "n", "t">>,
        <<"s", "r", " ", "v", "i", "c", "e", " ", "p", "r", "e", "s", "i", "d", "e", "n", "t">>,
        <<"s", "r", ".", " ", "v", "i", "c", "e", " ", "p", "r", "e", "s", "i", "d", "e", "n", "t">>}>>,
      <<"vp",
       {<<" ", "v", "p", " ">>,
        <<"v", "i", "c", "e", " ", "p", "r", "e", "s", "i", "d", "e", "n", "t">>,
        <<" ", "v", "p", ",">>, <<"v", "p", " ", "o", "f">>}>>,
      <<"director",
       {<<"d", "i", "r", "e", "c", "t", "o", "r">>}>>,
      <<"head_of",
       {<<"h", "e", "a", "d", " ", "o", "f">>, <<"h", "e", "a", "d", ",">>}>>>>

RECURSIVE FirstMatch(_, _, _)
\* the for loop over a table: the label of the first entry any of whose
\* patterns is `in` the text, else the default
FirstMatch(table, text, default) ==
    IF table = <<>> THEN default
    ELSE IF \E pattern \in Head(table)[2] : Contains(text, pattern)
         THEN Head(table)[1]
         ELSE FirstMatch(Tail(table), text, default)

RECURSIVE LastMatch(_, _, _)
\* (mutant) the loop does not stop at the first match
LastMatch(table, text, default) ==
    IF table = <<>> THEN default
    ELSE LET rest == LastMatch(Tail(table), text, default) IN
         IF rest = default /\ \E pattern \in Head(table)[2] : Contains(text, pattern)
         THEN Head(table)[1]
         ELSE rest

\* (mutant) detect_function returning the last category that matches
DetectFunctionLastMatch(title) == LastMatch(FUNCTION_PATTERNS, ToLower(title), "other")

DetectFunction(title) == FirstMatch(FUNCTION_PATTERNS, ToLower(title), "other")

DetectSeniority(title) ==
    FirstMatch(SENIORITY_PATTERNS, <<" ">> \o ToLower(title) \o <<" ">>, "unknown")

\* the words the titles are made of
TitleWords ==
    {<<"C", "F", "O">>,
     <<"C", "m", "o">>,
     <<"C", "h", "i", "e", "f", " ", "F", "i", "n", "a", "n", "c", "i", "a", "l">>,
     <<"C", "O", "N", "T", "R", "O", "L", "L", "E", "R">>,
     <<"M", "a", "r", "k", "e", "t", "i", "n", "g">>,
     <<"S", "a", "l", "e", "s">>,
     <<"V", "P">>,
     <<"E", "V", "P">>,
     <<"D", "i", "r", "e", "c", "t", "o", "r">>,
     <<"H", "e", "a", "d", " ", "o", "f">>,
     <<"F", "r", "a", "c", "t", "i", "o", "n", "a", "l">>,
     <<"N", "u", "r", "s", "e">>}

RECURSIVE JoinWords(_)
JoinWords(ws) ==
    IF Len(ws) = 1 THEN ws[1] ELSE ws[1] \o <<" ">> \o JoinWords(Tail(ws))

\* titles of one to MaxTitleWords words
JobTitles ==
    {JoinWords(ws) : ws \in UNION {[1..n -> TitleWords] : n \in 1..MaxTitleWords}}

\* job_to_db_dict classifies the title of a listing (one call in a behaviour)
DetectTitle(title) ==
    /\ last.op = "init"
    /\ last' = [op |-> "detect", title |-> title,
                function_category |-> DetectFunction(title),
                seniority_tier |-> DetectSeniority(title)]
    /\ UNCHANGED <<store, nextId, logs, snapshots, compSnapshots, now, run>>

-----------------------------------------------------------------------------
(* parsers.py: extract_hours *)

DigitChars == <<"0", "1", "2", "3", "4", "5", "6", "7", "8", "9">>
Whitespace == {" "}
\* [-<en dash><em dash>to]; the two dashes are written by their names
DashChars == {"-", "en dash", "em dash", "t", "o"}
\* \w of the lowercased text
WordChars ==
    {DigitChars[i] : i \in DOMAIN DigitChars} \cup
    {LowerChars[i] : i \in DOMAIN LowerChars} \cup {"_"}

IsDigit(c) == \E d \in DOMAIN DigitChars : DigitChars[d] = c
DigitValue(c) == (CHOOSE d \in DOMAIN DigitChars : DigitChars[d] = c) - 1

RECURSIVE NumberOf(_)
\* float(group)
NumberOf(ds) ==
    IF ds = <<>> THEN 0
    ELSE 10 * NumberOf(SubSeq(ds, 1, Len(ds) - 1)) + DigitValue(ds[Len(ds)])

(* The pieces of the patterns.  Each takes the index where it starts and gives *)
(* the index after what it consumed, 0 when it does not match (or is handed    *)
(* 0).  Every piece is followed by one that cannot start with what the piece   *)
(* consumes, so the greedy choice is the only one that can lead to a match.    *)

RECURSIVE SkipWhile(_, _, _)
SkipWhile(s, i, class) ==
    IF i <= Len(s) /\ s[i] \in class THEN SkipWhile(s, i + 1, class) ELSE i

StartsWith(s, i, lit) ==
    i >= 1 /\ i + Len(lit) - 1 <= Len(s) /\ SubSeq(s, i, i + Len(lit) - 1) = lit

\* a literal
Lit(s, i, lit) == IF i > 0 /\ StartsWith(s, i, lit) THEN i + Len(lit) ELSE 0

\* class+
Plus(s, i, class) ==
    IF i = 0 THEN 0
    ELSE LET e == SkipWhile(s, i, class) IN IF e > i THEN e ELSE 0

\* class*
Star(s, i, class) == IF i = 0 THEN 0 ELSE SkipWhile(s, i, class)

\* (\d+)
Digits(s, i) == Plus(s, i, {DigitChars[d] : d \in DOMAIN DigitChars})

\* hrs?
Hrs(s, i) ==
    IF Lit(s, i, <<"h", "r", "s">>) # 0 THEN Lit(s, i, <<"h", "r", "s">>)
    ELSE Lit(s, i, <<"h", "r">>)

\* (?:hrs?|hours?)
Unit(s, i) ==
    IF Hrs(s, i) # 0 THEN Hrs(s, i)
    ELSE IF Lit(s, i, <<"h", "o", "u", "r", "s">>) # 0 THEN Lit(s, i, <<"h", "o", "u", "r", "s">>)
    ELSE Lit(s, i, <<"h", "o", "u", "r">>)

\* (?:hrs?|hours?)?
OptUnit(s, i) == IF i = 0 THEN 0 ELSE IF Unit(s, i) # 0 THEN Unit(s, i) ELSE i

\* \s*(?:per|\/|a)?\s*week
PerWeek(s, i) ==
    LET j == Star(s, i, Whitespace)
        k == IF Lit(s, j, <<"p", "e", "r">>) # 0 THEN Lit(s, j, <<"p", "e", "r">>)
             ELSE IF Lit(s, j, <<"/">>) # 0 THEN Lit(s, j, <<"/">>)
             ELSE IF Lit(s, j, <<"a">>) # 0 THEN Lit(s, j, <<"a">>)
             ELSE j
    IN Lit(s, Star(s, k, Whitespace), <<"w", "e", "e", "k">>)

\* \b at index i: between a word character and none
Boundary(s, i) ==
    LET before == i > 1 /\ s[i - 1] \in WordChars
        after == i <= Len(s) /\ s[i] \in WordChars
    IN before # after

\* the groups of a match: (\d+) from i to e1, and from n2 to e2 when two
Groups(s, i, e1, n2, e2, end) ==
    IF end = 0 THEN <<>>
    ELSE IF n2 = 0 THEN <<NumberOf(SubSeq(s, i, e1 - 1))>>
    ELSE <<NumberOf(SubSeq(s, i, e1 - 1)), NumberOf(SubSeq(s, n2, e2 - 1))>>

\* patterns[k - 1].match at index i: its groups, <<>> when it does not match
MatchAt(k, s, i) ==
    CASE k = 1 ->
           LET e1 == Digits(s, i)
               n2 == Star(s, Plus(s, Star(s, e1, Whitespace), DashChars), Whitespace)
               e2 == Digits(s, n2)
           IN Groups(s, i, e1, n2, e2, PerWeek(s, Unit(s, Star(s, e2, Whitespace))))
      [] k = 2 ->
           LET e1 == Digits(s, i)
           IN Groups(s, i, e1, 0, 0, PerWeek(s, Unit(s, Star(s, e1, Whitespace))))
      [] k = 3 ->
           LET p == Lit(s, i, <<"p", "a", "r", "t">>)
               q == IF p # 0 /\ p <= Len(s) /\ s[p] \in Whitespace \cup {"-"}
                    THEN p + 1 ELSE p
               n1 == Lit(s, Star(s, Lit(s, q, <<"t", "i", "m", "e">>), Whitespace), <<"(">>)
               e1 == Digits(s, n1)
           IN Groups(s, n1, e1, 0, 0,
                     Lit(s, OptUnit(s, Star(s, e1, Whitespace)), <<")">>))
      [] k = 4 ->
           LET n1 == Plus(s, Lit(s, Plus(s, Lit(s, i, <<"u", "p">>), Whitespace),
                                 <<"t", "o">>), Whitespace)
               e1 == Digits(s, n1)
           IN Groups(s, n1, e1, 0, 0, Unit(s, Star(s, e1, Whitespace)))
      [] k = 5 ->
           LET n1 == Plus(s, Lit(s, i, <<"a", "p", "p", "r", "o", "x", "i", "m", "a", "t", "e", "l", "y">>), Whitespace)
               e1 == Digits(s, n1)
           IN Groups(s, n1, e1, 0, 0, Unit(s, Star(s, e1, Whitespace)))
      [] k = 6 ->
           LET e1 == Digits(s, i)
               n2 == Star(s, Plus(s, Star(s, e1, Whitespace), DashChars), Whitespace)
               e2 == Digits(s, n2)
           IN Groups(s, i, e1, n2, e2, Hrs(s, Star(s, e2, Whitespace)))
      [] k = 7 ->
           LET e1 == Digits(s, i)
               end == Hrs(s, Star(s, e1, Whitespace))
           IN Groups(s, i, e1, 0, 0,
                     IF Boundary(s, i) /\ end # 0 /\ Boundary(s, end) THEN end ELSE 0)

NumPatterns == 7

\* re.search(patterns[k - 1], s).groups(): the leftmost match
Search(k, s) ==
    LET starts == {i \in 1..Len(s) : MatchAt(k, s, i) # <<>>} IN
    IF starts = {} THEN <<>>
    ELSE MatchAt(k, s, CHOOSE i \in starts : \A j \in starts : i <= j)

RECURSIVE ExtractFromAny(_, _)
\* (mutant) the loop without the check 1 <= hours <= 50
ExtractFromAny(k, s) ==
    IF k > NumPatterns THEN <<>>
    ELSE LET groups == Search(k, s) IN
         IF Len(groups) = 2 THEN groups
         ELSE IF Len(groups) = 1 THEN <<groups[1], groups[1]>>
         ELSE ExtractFromAny(k + 1, s)

\* (mutant) extract_hours accepting any single number
ExtractHoursAny(text) ==
    IF text = <<>> THEN <<>> ELSE ExtractFromAny(1, ToLower(text))

RECURSIVE ExtractFrom(_, _)
\* the for loop from patterns[k - 1] on; (None, None) is <<>>
ExtractFrom(k, s) ==
    IF k > NumPatterns THEN <<>>
    ELSE LET groups == Search(k, s) IN
         IF Len(groups) = 2 THEN groups
         ELSE IF Len(groups) = 1 /\ 1 <= groups[1] /\ groups[1] <= 50
              THEN <<groups[1], groups[1]>>
              ELSE ExtractFrom(k + 1, s)

ExtractHours(text) ==
    IF text = <<>> THEN <<>> ELSE ExtractFrom(1, ToLower(text))

\* the pieces the texts are made of
HoursWords ==
    {<<"1", "0">>,
     <<"1", "2", "0">>,
     <<"-", "2", "0">>,
     <<" ", "h", "r", "s">>,
     <<" ", "h", "o", "u", "r", "s", " ", "p", "e", "r", " ", "w", "e", "e", "k">>,
     <<"u", "p", " ", "t", "o", " ", "2", "5", " ", "h", "o", "u", "r", "s">>,
     <<"x">>,
     <<"p", "a", "r", "t", " ", "t", "i", "m", "e", " ", "(", "1", "5", ")">>,
     <<"a", "p", "p", "r", "o", "x", "i", "m", "a", "t", "e", "l", "y", " ", "6", "0", " ", "h", "r", "s">>}

RECURSIVE Concat(_)
Concat(ws) == IF ws = <<>> THEN <<>> ELSE ws[1] \o Concat(Tail(ws))

\* texts of zero to MaxHoursWords pieces
HoursTexts ==
    {Concat(ws) : ws \in UNION {[1..n -> HoursWords] : n \in 0..MaxHoursWords}}

\* job_to_db_dict extracts the hours from a description (one call in a behaviour)
ExtractHoursCall(text) ==
    /\ last.op = "init"
    /\ last' = [op |-> "extract_hours", text |-> text, ret |-> ExtractHours(text)]
    /\ UNCHANGED <<store, nextId, logs, snapshots, compSnapshots, now, run>>


-----------------------------------------------------------------------------
(* parsers.py: parse_compensation; scrapers/indeed_scraper.py: the pay type *)

Thousand == 1000           \* float(s.replace('k', '')) * 1000
HourlyBelow == 1000        \* max_val < 1000
MonthlyBelow == 50000      \* max_val < 50000
IndeedHourlyBelow == 500   \* max_amount < 500
IndeedMonthlyBelow == 50000  \* max_amount < 50000

\* comp_string.lower().replace(',', '')
CompLower(comp_string) == SelectSeq(ToLower(comp_string), LAMBDA c : c # ",")

\* [\d\s\-<en dash><em dash>\.kyKY]: the characters re.sub leaves in place
CleanChars ==
    {DigitChars[d] : d \in DOMAIN DigitChars} \cup Whitespace \cup
    {"-", "en dash", "em dash", ".", "k", "y", "K", "Y"}

CompClean(comp_string) == SelectSeq(comp_string, LAMBDA c : c \in CleanChars)

\* [\d.]
NumberChars == {DigitChars[d] : d \in DOMAIN DigitChars} \cup {"."}

RECURSIVE FindNumbers(_, _)
\* re.findall(r'[\d.]+[kK]?', s), from index i on
FindNumbers(s, i) ==
    IF i > Len(s) THEN <<>>
    ELSE IF s[i] \notin NumberChars THEN FindNumbers(s, i + 1)
    ELSE LET e == SkipWhile(s, i, NumberChars)
             f == IF e <= Len(s) /\ s[e] \in {"k", "K"} THEN e + 1 ELSE e
         IN <<SubSeq(s, i, f - 1)>> \o FindNumbers(s, f)

\* parse_num(s): the value, or nothing when float() raises ValueError (no
\* digit, or more than one point).  The texts of the model have no digit
\* after a point, so the value is that of the digits
ParseNum(s) ==
    LET body == SelectSeq(ToLower(s), LAMBDA c : c # "k")
        points == Cardinality({i \in DOMAIN body : body[i] = "."})
        digits == SelectSeq(body, IsDigit)
    IN IF digits = <<>> \/ points > 1 THEN {}
       ELSE IF Contains(ToLower(s), <<"k">>) THEN {NumberOf(digits) * Thousand}
       ELSE {NumberOf(digits)}

HourWords == {<<"h", "o", "u", "r">>, <<"h", "r">>, <<"/", "h", "r">>, <<"h", "o", "u", "r", "l", "y">>}
MonthWords == {<<"m", "o", "n", "t", "h">>, <<"m", "o">>, <<"/", "m", "o">>, <<"m", "o", "n", "t", "h", "l", "y">>}
YearWords == {<<"y", "e", "a", "r">>, <<"y", "r">>, <<"/", "y", "r">>, <<"a", "n", "n", "u", "a", "l">>, <<"s", "a", "l", "a", "r", "y">>}

\* any(word in comp_lower for word in [...])
AnyWord(words, comp_lower) == \E word \in words : Contains(comp_lower, word)

\* the type from the keywords, else from max_val (`max_val and max_val < ...`)
CompTypeOf(comp_lower, max_val) ==
    IF AnyWord(HourWords, comp_lower) THEN "hourly"
    ELSE IF AnyWord(MonthWords, comp_lower) THEN "monthly"
    ELSE IF AnyWord(YearWords, comp_lower) THEN "annual"
    ELSE IF max_val # 0 /\ max_val < HourlyBelow THEN "hourly"
    ELSE IF max_val # 0 /\ max_val < MonthlyBelow THEN "monthly"
    ELSE "annual"

\* ('not_disclosed', None, None); an optional number is the empty set or {n}
NotDisclosed == [comp_type |-> "not_disclosed", comp_min |-> {}, comp_max |-> {}]

\* parse_compensation(comp_string) -> (comp_type, min_val, max_val)
ParseCompensation(comp_string) ==
    LET numbers == FindNumbers(CompClean(comp_string), 1)
        min_val == ParseNum(numbers[1])
        max_val == IF Len(numbers) >= 2 THEN ParseNum(numbers[2]) ELSE min_val
    IN IF comp_string = <<>> \/ numbers = <<>> THEN NotDisclosed
       ELSE IF min_val = {} \/ max_val = {} THEN NotDisclosed
       ELSE [comp_type |-> CompTypeOf(CompLower(comp_string),
                                      CHOOSE x \in max_val : TRUE),
             comp_min |-> min_val, comp_max |-> max_val]

\* truth value of an optional number: None and 0 are false
Truthy(x) == x # {} /\ x # {0}

\* job_to_db_dict of the Indeed source: comp_type from interval and amounts
IndeedCompType(interval, min_amount, max_amount) ==
    IF interval = "hourly" THEN "hourly"
    ELSE IF interval = "monthly" THEN "monthly"
    ELSE IF interval \in {"yearly", "annually"} THEN "annual"
    ELSE IF Truthy(min_amount) \/ Truthy(max_amount)
         THEN IF Truthy(max_amount) /\ (CHOOSE x \in max_amount : TRUE) < IndeedHourlyBelow
              THEN "hourly"
              ELSE IF Truthy(max_amount) /\ (CHOOSE x \in max_amount : TRUE) < IndeedMonthlyBelow
                   THEN "monthly"
                   ELSE "annual"
         ELSE "not_disclosed"

\* the pieces the compensation strings are made of
CompWords ==
    {<<" ", "$", "8", "5">>, <<" ", "-", " ", "$", "1", "0", "0">>, <<" ", "a", "n", " ", "h", "o", "u", "r">>, <<" ", "$", "8", "K">>, <<"-", "$", "1", "0", "K">>, <<"/", "m", "o", "n", "t", "h">>, <<" ", "$", "7", "0", "0">>,
     <<" ", "$", "0">>, <<" ", "$", "6", "0", ",", "0", "0", "0">>, <<" ", "a", " ", "y", "e", "a", "r">>, <<".">>, <<" ", "D", "O", "E">>}

\* compensation strings of zero to MaxCompWords pieces
CompStrings ==
    {Concat(ws) : ws \in UNION {[1..n -> CompWords] : n \in 0..MaxCompWords}}

\* the values of JobSpy's interval column, and '' when the key is missing
Intervals == {"", "hourly", "weekly", "monthly", "yearly", "annually"}

\* the values of min_amount and max_amount (None when missing)
IndeedAmounts == {{}, {0}, {85}, {700}, {1200}, {60000}}

\* job_to_db_dict of fractionaljobs parses compensation_raw (one call in a
\* behaviour)
ParseCompensationCall(comp_string) ==
    /\ last.op = "init"
    /\ last' = [op |-> "parse_compensation", text |-> comp_string,
                ret |-> ParseCompensation(comp_string)]
    /\ UNCHANGED <<store, nextId, logs, snapshots, compSnapshots, now, run>>

\* job_to_db_dict of indeed decides the pay type (one call in a behaviour)
IndeedCompTypeCall(interval, min_amount, max_amount) ==
    /\ last.op = "init"
    /\ last' = [op |-> "indeed_comp_type", interval |-> interval,
                min_amount |-> min_amount, max_amount |-> max_amount,
                ret |-> IndeedCompType(interval, min_amount, max_amount)]
    /\ UNCHANGED <<store, nextId, logs, snapshots, compSnapshots, now, run>>


-----------------------------------------------------------------------------
(* parsers.py: normalize_compensation *)

(* Amounts are rationals <<numerator, denominator>> in lowest terms, so the  *)
(* products and quotients of the code are exact.                             *)

DefaultHours == 15      \* hours_avg = 15.0
HoursPerYear == 2080    \* HOURS_PER_YEAR
MonthsPerYear == 12     \* comp_min / 12
WeeksPerMonth == <<433, 100>>   \* WEEKS_PER_MONTH = 4.33

RECURSIVE GCD(_, _)
GCD(a, b) == IF b = 0 THEN a ELSE GCD(b, a % b)

QInt(n) == <<n, 1>>
QReduce(q) == LET g == GCD(q[1], q[2]) IN IF g = 0 THEN q ELSE <<q[1] \div g, q[2] \div g>>
\* a * b, a / b and a = b
QMul(a, b) ==
    LET g1 == GCD(a[1], b[2])
        g2 == GCD(b[1], a[2])
    IN IF a[1] = 0 \/ b[1] = 0 THEN <<0, 1>>
       ELSE <<(a[1] \div g1) * (b[1] \div g2), (a[2] \div g2) * (b[2] \div g1)>>
QDiv(a, b) == QMul(a, <<b[2], b[1]>>)
QEq(a, b) == a[1] * b[2] = b[1] * a[2]

\* truth value of an optional amount: None and 0.0 are false
TruthyQ(x) == x # {} /\ \A q \in x : q[1] # 0

\* `converted if x else None`: the conversion of an optional amount that is
\* true, else None
IfTruthy(x, converted) == IF TruthyQ(x) THEN converted ELSE {}

\* hours_avg: the midpoint, the one bound that is known, or 15
HoursAvg(hours_min, hours_max) ==
    IF Truthy(hours_min) /\ Truthy(hours_max)
    THEN QReduce(<<(CHOOSE x \in hours_min : TRUE) + (CHOOSE x \in hours_max : TRUE), 2>>)
    ELSE IF Truthy(hours_min) THEN QInt(CHOOSE x \in hours_min : TRUE)
    ELSE IF Truthy(hours_max) THEN QInt(CHOOSE x \in hours_max : TRUE)
    ELSE QInt(DefaultHours)

\* {'hourly_min': None, ...}
NoRates == [hourly_min |-> {}, hourly_max |-> {}, monthly_min |-> {}, monthly_max |-> {}]

\* normalize_compensation(comp_type, comp_min, comp_max, hours_min, hours_max)
NormalizeCompensation(comp_type, comp_min, comp_max, hours_min, hours_max) ==
    LET hours_avg == HoursAvg(hours_min, hours_max)
        ToMonthly(q) == QMul(QMul(q, hours_avg), WeeksPerMonth)
        ToHourly(q) == QDiv(q, QMul(hours_avg, WeeksPerMonth))
        YearToHourly(q) == QDiv(q, QInt(HoursPerYear))
        YearToMonthly(q) == QDiv(q, QInt(MonthsPerYear))
    IN IF ~TruthyQ(comp_min) /\ ~TruthyQ(comp_max) THEN NoRates
       ELSE IF comp_type = "hourly"
       THEN [hourly_min |-> comp_min, hourly_max |-> comp_max,
             monthly_min |-> IfTruthy(comp_min, {ToMonthly(q) : q \in comp_min}),
             monthly_max |-> IfTruthy(comp_max, {ToMonthly(q) : q \in comp_max})]
       ELSE IF comp_type = "monthly"
       THEN [monthly_min |-> comp_min, monthly_max |-> comp_max,
             hourly_min |-> IF hours_avg[1] > 0 THEN IfTruthy(comp_min, {ToHourly(q) : q \in comp_min}) ELSE {},
             hourly_max |-> IF hours_avg[1] > 0 THEN IfTruthy(comp_max, {ToHourly(q) : q \in comp_max}) ELSE {}]
       ELSE IF comp_type = "annual"
       THEN [hourly_min |-> IfTruthy(comp_min, {YearToHourly(q) : q \in comp_min}),
             monthly_min |-> IfTruthy(comp_min, {YearToMonthly(q) : q \in comp_min}),
             hourly_max |-> IfTruthy(comp_max, {YearToHourly(q) : q \in comp_max}),
             monthly_max |-> IfTruthy(comp_max, {YearToMonthly(q) : q \in comp_max})]
       ELSE NoRates

CompTypes == {"hourly", "monthly", "annual", "not_disclosed"}

\* the amounts handed to normalize_compensation (None when missing)
CompAmounts == {{}, {QInt(0)}, {QInt(85)}, {QInt(100)}, {QInt(6495)}}

\* the weekly hours extract_hours returns (None when missing)
WeeklyHours == {{}, {0}, {10}, {25}}

\* job_to_db_dict normalizes the compensation (one call in a behaviour)
NormalizeCall(comp_type, comp_min, comp_max, hours_min, hours_max) ==
    /\ last.op = "init"
    /\ last' = [op |-> "normalize_compensation", comp_type |-> comp_type,
                comp_min |-> comp_min, comp_max |-> comp_max,
                hours_min |-> hours_min, hours_max |-> hours_max,
                ret |-> NormalizeCompensation(comp_type, comp_min, comp_max,
                                              hours_min, hours_max)]
    /\ UNCHANGED <<store, nextId, logs, snapshots, compSnapshots, now, run>>


-----------------------------------------------------------------------------
(* parsers.py: detect_location_type *)

DescriptionPrefix == 500   \* desc_lower[:500]

\* state = None (the state is a sequence of characters)
NoState == <<>>

US_STATES ==
    <<<<"a", "l", "a", "b", "a", "m", "a">>,
      <<"a", "l", "a", "s", "k", "a">>,
      <<"a", "r", "i", "z", "o", "n", "a">>,
      <<"a", "r", "k", "a", "n", "s", "a", "s">>,
      <<"c", "a", "l", "i", "f", "o", "r", "n", "i", "a">>,
      <<"c", "o", "l", "o", "r", "a", "d", "o">>,
      <<"c", "o", "n", "n", "e", "c", "t", "i", "c", "u", "t">>,
      <<"d", "e", "l", "a", "w", "a", "r", "e">>,
      <<"f", "l", "o", "r", "i", "d", "a">>,
      <<"g", "e", "o", "r", "g", "i", "a">>,
      <<"h", "a", "w", "a", "i", "i">>,
      <<"i", "d", "a", "h", "o">>,
      <<"i", "l", "l", "i", "n", "o", "i", "s">>,
      <<"i", "n", "d", "i", "a", "n", "a">>,
      <<"i", "o", "w", "a">>,
      <<"k", "a", "n", "s", "a", "s">>,
      <<"k", "e", "n", "t", "u", "c", "k", "y">>,
      <<"l", "o", "u", "i", "s", "i", "a", "n", "a">>,
      <<"m", "a", "i", "n", "e">>,
      <<"m", "a", "r", "y", "l", "a", "n", "d">>,
      <<"m", "a", "s", "s", "a", "c", "h", "u", "s", "e", "t", "t", "s">>,
      <<"m", "i", "c", "h", "i", "g", "a", "n">>,
      <<"m", "i", "n", "n", "e", "s", "o", "t", "a">>,
      <<"m", "i", "s", "s", "i", "s", "s", "i", "p", "p", "i">>,
      <<"m", "i", "s", "s", "o", "u", "r", "i">>,
      <<"m", "o", "n", "t", "a", "n", "a">>,
      <<"n", "e", "b", "r", "a", "s", "k", "a">>,
      <<"n", "e", "v", "a", "d", "a">>,
      <<"n", "e", "w", " ", "h", "a", "m", "p", "s", "h", "i", "r", "e">>,
      <<"n", "e", "w", " ", "j", "e", "r", "s", "e", "y">>,
      <<"n", "e", "w", " ", "m", "e", "x", "i", "c", "o">>,
      <<"n", "e", "w", " ", "y", "o", "r", "k">>,
      <<"n", "o", "r", "t", "h", " ", "c", "a", "r", "o", "l", "i", "n", "a">>,
      <<"n", "o", "r", "t", "h", " ", "d", "a", "k", "o", "t", "a">>,
      <<"o", "h", "i", "o">>,
      <<"o", "k", "l", "a", "h", "o", "m", "a">>,
      <<"o", "r", "e", "g", "o", "n">>,
      <<"p", "e", "n", "n", "s", "y", "l", "v", "a", "n", "i", "a">>,
      <<"r", "h", "o", "d", "e", " ", "i", "s", "l", "a", "n", "d">>,
      <<"s", "o", "u", "t", "h", " ", "c", "a", "r", "o", "l", "i", "n", "a">>,
      <<"s", "o", "u", "t", "h", " ", "d", "a", "k", "o", "t", "a">>,
      <<"t", "e", "n", "n", "e", "s", "s", "e", "e">>,
      <<"t", "e", "x", "a", "s">>,
      <<"u", "t", "a", "h">>,
      <<"v", "e", "r", "m", "o", "n", "t">>,
      <<"v", "i", "r", "g", "i", "n", "i", "a">>,
      <<"w", "a", "s", "h", "i", "n", "g", "t", "o", "n">>,
      <<"w", "e", "s", "t", " ", "v", "i", "r", "g", "i", "n", "i", "a">>,
      <<"w", "i", "s", "c", "o", "n", "s", "i", "n">>,
      <<"w", "y", "o", "m", "i", "n", "g">>>>

US_STATE_ABBREVS ==
    <<<<"a", "l">>, <<"a", "k">>, <<"a", "z">>, <<"a", "r">>, <<"c", "a">>,
      <<"c", "o">>, <<"c", "t">>, <<"d", "e">>, <<"f", "l">>, <<"g", "a">>,
      <<"h", "i">>, <<"i", "d">>, <<"i", "l">>, <<"i", "n">>, <<"i", "a">>,
      <<"k", "s">>, <<"k", "y">>, <<"l", "a">>, <<"m", "e">>, <<"m", "d">>,
      <<"m", "a">>, <<"m", "i">>, <<"m", "n">>, <<"m", "s">>, <<"m", "o">>,
      <<"m", "t">>, <<"n", "e">>, <<"n", "v">>, <<"n", "h">>, <<"n", "j">>,
      <<"n", "m">>, <<"n", "y">>, <<"n", "c">>, <<"n", "d">>, <<"o", "h">>,
      <<"o", "k">>, <<"o", "r">>, <<"p", "a">>, <<"r", "i">>, <<"s", "c">>,
      <<"s", "d">>, <<"t", "n">>, <<"t", "x">>, <<"u", "t">>, <<"v", "t">>,
      <<"v", "a">>, <<"w", "a">>, <<"w", "v">>, <<"w", "i">>, <<"w", "y">>>>

\* str.upper(), for the letters a-z
ToUpper(s) ==
    [i \in DOMAIN s |->
        IF \E k \in DOMAIN LowerChars : LowerChars[k] = s[i]
        THEN UpperChars[CHOOSE k \in DOMAIN LowerChars : LowerChars[k] = s[i]]
        ELSE s[i]]

\* the cities that make a listing onsite
OnsiteCities ==
    {<<"n", "e", "w", " ", "y", "o", "r", "k">>, <<"s", "a", "n", " ", "f", "r", "a", "n", "c", "i", "s", "c", "o">>, <<"l", "o", "s", " ", "a", "n", "g", "e", "l", "e", "s">>, <<"c", "h", "i", "c", "a", "g", "o">>, <<"b", "o", "s", "t", "o", "n">>,
     <<"s", "e", "a", "t", "t", "l", "e">>, <<"a", "u", "s", "t", "i", "n">>, <<"d", "e", "n", "v", "e", "r">>}

RemoteIndicators == {<<"f", "u", "l", "l", "y", " ", "r", "e", "m", "o", "t", "e">>, <<"r", "e", "m", "o", "t", "e", " ", "p", "o", "s", "i", "t", "i", "o", "n">>, <<"1", "0", "0", "%", " ", "r", "e", "m", "o", "t", "e">>}
WorldwideWords == {<<"w", "o", "r", "l", "d", "w", "i", "d", "e">>, <<"g", "l", "o", "b", "a", "l">>, <<"a", "n", "y", "w", "h", "e", "r", "e">>}
UsaOnlyWords == {<<"u", "s", "a", " ", "o", "n", "l", "y">>, <<"u", "s", " ", "o", "n", "l", "y">>, <<"u", "n", "i", "t", "e", "d", " ", "s", "t", "a", "t", "e", "s", " ", "o", "n", "l", "y">>}
TimezoneWords ==
    {<<"p", "s", "t">>, <<"e", "s", "t">>, <<"c", "s", "t">>, <<"m", "s", "t">>, <<" ", "e", "t", " ">>, <<" ", "p", "t", " ">>, <<" ", "c", "t", " ">>, <<" ", "m", "t", " ">>,
     <<"e", "a", "s", "t", "e", "r", "n", " ", "t", "i", "m", "e">>, <<"p", "a", "c", "i", "f", "i", "c", " ", "t", "i", "m", "e">>}

\* the first stage: remote, hybrid or onsite
LocationTypeOf(loc_lower, combined) ==
    IF Contains(loc_lower, <<"r", "e", "m", "o", "t", "e">>) THEN "remote"
    ELSE IF Contains(loc_lower, <<"h", "y", "b", "r", "i", "d">>) THEN "hybrid"
    ELSE IF AnyWord(OnsiteCities, loc_lower) THEN "onsite"
    ELSE IF AnyWord(RemoteIndicators, combined) THEN "remote"
    ELSE IF Contains(combined, <<"h", "y", "b", "r", "i", "d">>) THEN "hybrid"
    ELSE "onsite"

\* the indexes at which the for loop over US_STATES finds the name
StateNameHits(loc_lower, desc_lower) ==
    {i \in DOMAIN US_STATES :
        \/ Contains(loc_lower, US_STATES[i])
        \/ Contains(Prefix(desc_lower, DescriptionPrefix), US_STATES[i])}

\* re.search(rf'\b{abbrev}\b', loc_lower, re.IGNORECASE)
AbbrevFound(loc_lower, abbrev) ==
    \E k \in DOMAIN loc_lower :
        /\ StartsWith(loc_lower, k, abbrev)
        /\ Boundary(loc_lower, k)
        /\ Boundary(loc_lower, k + Len(abbrev))

\* the indexes at which the for loop over US_STATE_ABBREVS finds the code
AbbrevHits(loc_lower) ==
    {i \in DOMAIN US_STATE_ABBREVS : AbbrevFound(loc_lower, US_STATE_ABBREVS[i])}

\* the least element: where a for loop with break stops
First(hits) == CHOOSE i \in hits : \A j \in hits : i <= j

\* detect_location_type(location_raw, description) ->
\* (location_type, restriction, state)
DetectLocationType(location_raw, description) ==
    LET loc_lower == ToLower(location_raw)
        desc_lower == ToLower(description)
        combined == loc_lower \o <<" ">> \o desc_lower
        location_type == LocationTypeOf(loc_lower, combined)
        names == StateNameHits(loc_lower, desc_lower)
        abbrevs == AbbrevHits(loc_lower)
        Result(restriction, state) ==
            [location_type |-> location_type, location_restriction |-> restriction,
             location_state |-> state]
    IN IF location_type # "remote" THEN Result("city_specific", NoState)
       ELSE IF AnyWord(WorldwideWords, combined) THEN Result("worldwide", NoState)
       ELSE IF AnyWord(UsaOnlyWords, combined) THEN Result("usa_only", NoState)
       ELSE IF names # {}
            THEN Result("state_specific", ToUpper(US_STATE_ABBREVS[First(names)]))
       ELSE IF abbrevs # {}
            THEN Result("state_specific", ToUpper(US_STATE_ABBREVS[First(abbrevs)]))
       ELSE IF AnyWord(TimezoneWords, combined) THEN Result("timezone", NoState)
       ELSE Result("usa_only", NoState)

\* the full names of the states, as a site writes them
StateNames ==
    {<<"A", "l", "a", "b", "a", "m", "a">>,
     <<"A", "l", "a", "s", "k", "a">>,
     <<"A", "r", "i", "z", "o", "n", "a">>,
     <<"A", "r", "k", "a", "n", "s", "a", "s">>,
     <<"C", "a", "l", "i", "f", "o", "r", "n", "i", "a">>,
     <<"C", "o", "l", "o", "r", "a", "d", "o">>,
     <<"C", "o", "n", "n", "e", "c", "t", "i", "c", "u", "t">>,
     <<"D", "e", "l", "a", "w", "a", "r", "e">>,
     <<"F", "l", "o", "r", "i", "d", "a">>,
     <<"G", "e", "o", "r", "g", "i", "a">>,
     <<"H", "a", "w", "a", "i", "i">>,
     <<"I", "d", "a", "h", "o">>,
     <<"I", "l", "l", "i", "n", "o", "i", "s">>,
     <<"I", "n", "d", "i", "a", "n", "a">>,
     <<"I", "o", "w", "a">>,
     <<"K", "a", "n", "s", "a", "s">>,
     <<"K", "e", "n", "t", "u", "c", "k", "y">>,
     <<"L", "o", "u", "i", "s", "i", "a", "n", "a">>,
     <<"M", "a", "i", "n", "e">>,
     <<"M", "a", "r", "y", "l", "a", "n", "d">>,
     <<"M", "a", "s", "s", "a", "c", "h", "u", "s", "e", "t", "t", "s">>,
     <<"M", "i", "c", "h", "i", "g", "a", "n">>,
     <<"M", "i", "n", "n", "e", "s", "o", "t", "a">>,
     <<"M", "i", "s", "s", "i", "s", "s", "i", "p", "p", "i">>,
     <<"M", "i", "s", "s", "o", "u", "r", "i">>,
     <<"M", "o", "n", "t", "a", "n", "a">>,
     <<"N", "e", "b", "r", "a", "s", "k", "a">>,
     <<"N", "e", "v", "a", "d", "a">>,
     <<"N", "e", "w", " ", "H", "a", "m", "p", "s", "h", "i", "r", "e">>,
     <<"N", "e", "w", " ", "J", "e", "r", "s", "e", "y">>,
     <<"N", "e", "w", " ", "M", "e", "x", "i", "c", "o">>,
     <<"N", "e", "w", " ", "Y", "o", "r", "k">>,
     <<"N", "o", "r", "t", "h", " ", "C", "a", "r", "o", "l", "i", "n", "a">>,
     <<"N", "o", "r", "t", "h", " ", "D", "a", "k", "o", "t", "a">>,
     <<"O", "h", "i", "o">>,
     <<"O", "k", "l", "a", "h", "o", "m", "a">>,
     <<"O", "r", "e", "g", "o", "n">>,
     <<"P", "e", "n", "n", "s", "y", "l", "v", "a", "n", "i", "a">>,
     <<"R", "h", "o", "d", "e", " ", "I", "s", "l", "a", "n", "d">>,
     <<"S", "o", "u", "t", "h", " ", "C", "a", "r", "o", "l", "i", "n", "a">>,
     <<"S", "o", "u", "t", "h", " ", "D", "a", "k", "o", "t", "a">>,
     <<"T", "e", "n", "n", "e", "s", "s", "e", "e">>,
     <<"T", "e", "x", "a", "s">>,
     <<"U", "t", "a", "h">>,
     <<"V", "e", "r", "m", "o", "n", "t">>,
     <<"V", "i", "r", "g", "i", "n", "i", "a">>,
     <<"W", "a", "s", "h", "i", "n", "g", "t", "o", "n">>,
     <<"W", "e", "s", "t", " ", "V", "i", "r", "g", "i", "n", "i", "a">>,
     <<"W", "i", "s", "c", "o", "n", "s", "i", "n">>,
     <<"W", "y", "o", "m", "i", "n", "g">>}

\* what a location text may open and close with
LocationPrefixes == {<<>>, <<"R", "e", "m", "o", "t", "e", " ", "-", " ">>, <<"H", "y", "b", "r", "i", "d", ",", " ">>}
LocationSuffixes == {<<>>, <<",", " ", "U", "S">>, <<" ", "(", "E", "S", "T", ")">>}

\* the location texts: a state's name, or some other place
LocationTexts ==
    {p \o n \o s : p \in LocationPrefixes, n \in StateNames \cup {<<>>, <<"A", "u", "s", "t", "i", "n", ",", " ", "T", "X">>, <<"R", "e", "m", "o", "t", "e", " ", "i", "n", " ", "U", "S">>},
                   s \in LocationSuffixes}

\* the descriptions
Descriptions ==
    {<<>>, <<"F", "u", "l", "l", "y", " ", "r", "e", "m", "o", "t", "e", " ", "r", "o", "l", "e">>, <<"1", "0", "0", "%", " ", "r", "e", "m", "o", "t", "e", ",", " ", "U", "S", " ", "o", "n", "l", "y">>, <<"W", "o", "r", "k", " ", "f", "r", "o", "m", " ", "a", "n", "y", "w", "h", "e", "r", "e">>,
     <<"F", "u", "l", "l", "y", " ", "r", "e", "m", "o", "t", "e", ";", " ", "o", "u", "r", " ", "o", "f", "f", "i", "c", "e", " ", "i", "s", " ", "i", "n", " ", "O", "h", "i", "o">>}

\* job_to_db_dict classifies the location of a listing (one call in a behaviour)
DetectLocationCall(location_raw, description) ==
    /\ last.op = "init"
    /\ last' = [op |-> "detect_location_type", location_raw |-> location_raw,
                description |-> description,
                ret |-> DetectLocationType(location_raw, description)]
    /\ UNCHANGED <<store, nextId, logs, snapshots, compSnapshots, now, run>>


-----------------------------------------------------------------------------
(* job_to_db_dict with the location and compensation keys; the runs that   *)
(* merge them into the rows                                                *)

\* an optional float as an optional amount
Amount(x) == {QInt(n) : n \in x}

\* hours_min, hours_max = extract_hours(...)
HoursMin(hours) == IF hours = <<>> THEN {} ELSE {hours[1]}
HoursMax(hours) == IF hours = <<>> THEN {} ELSE {hours[2]}

\* the keys hourly_rate_min ... monthly_retainer_max of the dictionary
RateKeys(normalized_comp) ==
    [hourly_rate_min |-> normalized_comp.hourly_min,
     hourly_rate_max |-> normalized_comp.hourly_max,
     monthly_retainer_min |-> normalized_comp.monthly_min,
     monthly_retainer_max |-> normalized_comp.monthly_max]

\* scrapers/indeed_scraper.py: job_to_db_dict, with its location and
\* compensation keys.  comp_type, hours and loc are computed once, as the
\* locals of the function are
IndeedListingDict(job, seed, t) ==
    CHOOSE job_dict \in
        {IndeedDict(job, seed, t) @@ loc @@
         [compensation_type |-> comp_type,
          compensation_min |-> Amount(job.min_amount),
          compensation_max |-> Amount(job.max_amount)] @@
         RateKeys(NormalizeCompensation(comp_type, Amount(job.min_amount),
                                        Amount(job.max_amount),
                                        HoursMin(hours), HoursMax(hours))) :
            comp_type \in {IndeedCompType(job.interval, job.min_amount, job.max_amount)},
            hours \in {ExtractHours(job.description)},
            loc \in {IF job.is_remote
                     THEN [location_type |-> "remote",
                           location_restriction |-> "usa_only",
                           location_state |-> NoState]
                     ELSE DetectLocationType(job.location, job.description)}} : TRUE

\* fractionaljobs_scraper.py: job_to_db_dict, with its location and
\* compensation keys.  hours, comp and loc are computed once, as the locals of
\* the function are
FjListingDict(job, t) ==
    CHOOSE job_dict \in
        {FjDict(job, t) @@ loc @@
         [compensation_type |-> comp.comp_type,
          compensation_min |-> Amount(comp.comp_min),
          compensation_max |-> Amount(comp.comp_max)] @@
         RateKeys(NormalizeCompensation(comp.comp_type, Amount(comp.comp_min),
                                        Amount(comp.comp_max),
                                        HoursMin(hours), HoursMax(hours))) :
            hours \in {ExtractHours(job.hours_raw)},
            comp \in {ParseCompensation(job.compensation_raw)},
            loc \in {DetectLocationType(job.location_raw, <<>>)}} : TRUE

\* one posting of each source, as the source shows it on different days
IndeedListings ==
    [job_url : {UrlJk}, title : Titles, company_url : CompanyUrls,
     location : {<<"R", "e", "m", "o", "t", "e", ",", " ", "T", "X">>, <<"R", "e", "m", "o", "t", "e">>}, is_remote : BOOLEAN,
     description : {<<>>},
     interval : {"hourly", ""}, min_amount : {{}, {85}}, max_amount : {{}, {85}}]

FjListings ==
    [source_id : {SlugA}, title : Titles, company_url : CompanyUrls,
     location_raw : {<<"R", "e", "m", "o", "t", "e", ",", " ", "T", "X">>, <<"R", "e", "m", "o", "t", "e">>},
     compensation_raw : {<<>>, <<"$", "8", "5", " ", "a", "n", " ", "h", "o", "u", "r">>},
     hours_raw : {<<>>}]

\* the rows of the two postings as an earlier run left them: what
\* job_to_db_dict gave for the posting then
ListedRow(id, job_dict) ==
    [k \in (DOMAIN job_dict \cap FractionalJobAttrs) \cup {"id"} |->
        IF k = "id" THEN id ELSE job_dict[k]]

ListedRows ==
    {ListedRow(1, IndeedListingDict(
                      [job_url |-> UrlJk, title |-> "Fractional CFO",
                       company_url |-> "http://acme", location |-> <<"R", "e", "m", "o", "t", "e", ",", " ", "T", "X">>,
                       is_remote |-> FALSE, description |-> <<>>,
                       interval |-> "hourly", min_amount |-> {85},
                       max_amount |-> {85}], 1, 0)),
     ListedRow(3, FjListingDict(
                      [source_id |-> SlugA, title |-> "Fractional CFO",
                       company_url |-> "http://acme", location_raw |-> <<"R", "e", "m", "o", "t", "e", ",", " ", "T", "X">>,
                       compensation_raw |-> <<"$", "8", "5", " ", "a", "n", " ", "h", "o", "u", "r">>, hours_raw |-> <<>>], 0))}

\* scrape_indeed: the body of the for loop, for a posting of IndeedListings
ProcessIndeedListing(job, seed) ==
    /\ run.pc = "running" /\ run.source = "indeed"
    /\ run.found < MaxFeed
    /\ job.job_url \notin run.seen_ids
    /\ Process(job.job_url, IndeedSourceId(job.job_url, seed),
               {IndeedListingDict(job, seed, now)})

\* scrape_fractionaljobs: the body of the for loop, for a posting of FjListings
ProcessFjListing(job) ==
    /\ run.pc = "running" /\ run.source = "fractionaljobs"
    /\ run.found < MaxFeed
    /\ Process(job.source_id, job.source_id, {FjListingDict(job, now)})


-----------------------------------------------------------------------------
(* The attributes of FractionalJob and the keys of the dictionaries, in full *)

\* database.py: every column and relationship of class FractionalJob
FractionalJobColumns ==
    {"id", "source", "source_id", "source_url", "title", "company_name",
     "company_url", "location_raw", "location_type",
     "location_restriction", "location_state", "location_city",
     "compensation_type", "compensation_min", "compensation_max",
     "compensation_currency", "hourly_rate_min", "hourly_rate_max",
     "monthly_retainer_min", "monthly_retainer_max", "hours_per_week_min",
     "hours_per_week_max", "job_type", "experience_level",
     "function_category", "seniority_tier", "date_posted", "date_scraped",
     "last_seen", "description_raw", "description_snippet", "benefits_raw",
     "requirements_raw", "is_active", "easy_apply", "company_id",
     "company"}

\* scrapers/indeed_scraper.py: every key of the dictionary job_to_db_dict returns
IndeedDictKeys ==
    {"source", "source_id", "source_url", "title", "company_name",
     "company_name_normalized", "company_url", "location_raw",
     "location_type", "location_restriction", "location_state",
     "compensation_type", "compensation_min", "compensation_max",
     "hourly_rate_min", "hourly_rate_max", "monthly_retainer_min",
     "monthly_retainer_max", "hours_per_week_min", "hours_per_week_max",
     "job_type", "function_category", "seniority_tier", "date_posted",
     "date_scraped", "description_raw", "description_snippet", "is_active",
     "last_seen"}

\* fractionaljobs_scraper.py: every key of the dictionary job_to_db_dict returns
FjDictKeys ==
    {"source", "source_id", "source_url", "title", "company_name",
     "company_name_normalized", "company_url", "location_raw",
     "location_type", "location_restriction", "location_state",
     "compensation_type", "compensation_min", "compensation_max",
     "hourly_rate_min", "hourly_rate_max", "monthly_retainer_min",
     "monthly_retainer_max", "hours_per_week_min", "hours_per_week_max",
     "function_category", "seniority_tier", "date_posted", "date_scraped",
     "is_active", "last_seen"}

\* the keys of the dictionary of a source
DictKeys(src) == IF src = "indeed" THEN IndeedDictKeys ELSE FjDictKeys


-----------------------------------------------------------------------------

\* a step of a scrape run in progress, or of the clock
RunStep ==
    \/ Tick
    \/ \E job \in IndeedRaws, seed \in HashSeeds : ProcessIndeed(job, seed)
    \/ \E job \in FjRaws : ProcessFj(job)
    \/ FinishRun
    \/ FailRun

\* scrape runs, one after the other
Next ==
    \/ \E src \in Sources : StartRun(src, MaxRuns)
    \/ RunStep

Spec == Init /\ [][Next]_vars

\* scrape runs and daily snapshots, one after the other
NextSnap ==
    \/ \E src \in Sources : StartRun(src, MaxSnapRuns)
    \/ RunStep
    \/ CreateDailySnapshot(MaxSnapshots)

SpecSnap == Init /\ [][NextSnap]_vars

\* scrape runs, also those that end without a record in their log
NextLog ==
    \/ \E src \in Sources : StartRun(src, MaxLogRuns)
    \/ RunStep
    \/ \E stage \in AbortStages : AbortRun(stage)

SpecLog == Init /\ [][NextLog]_vars

\* the parsers applied to titles and texts
NextParse ==
    \/ \E title \in JobTitles : DetectTitle(title)
    \/ \E text \in HoursTexts : ExtractHoursCall(text)

InitParse == Init /\ store = {}

SpecParse == InitParse /\ [][NextParse]_vars


\* the compensation parsers applied to strings and amounts
NextComp ==
    \/ \E comp_string \in CompStrings : ParseCompensationCall(comp_string)
    \/ \E interval \in Intervals, min_amount \in IndeedAmounts,
          max_amount \in IndeedAmounts :
           IndeedCompTypeCall(interval, min_amount, max_amount)
    \/ \E comp_type \in CompTypes, comp_min \in CompAmounts, comp_max \in CompAmounts,
          hours_min \in WeeklyHours, hours_max \in WeeklyHours :
           NormalizeCall(comp_type, comp_min, comp_max, hours_min, hours_max)

SpecComp == InitParse /\ [][NextComp]_vars


\* the location parser applied to location texts and descriptions
NextLoc ==
    \E location_raw \in LocationTexts, description \in Descriptions :
        DetectLocationCall(location_raw, description)

SpecLoc == InitParse /\ [][NextLoc]_vars


\* scrape runs over a store that holds the two postings
NextMerge ==
    \/ \E src \in Sources : StartRun(src, MaxMergeRuns)
    \/ \E job \in IndeedListings, seed \in HashSeeds : ProcessIndeedListing(job, seed)
    \/ \E job \in FjListings : ProcessFjListing(job)
    \/ FinishRun

InitMerge ==
    /\ store = ListedRows
    /\ nextId = 4
    /\ logs = <<>>
    /\ snapshots = <<>>
    /\ compSnapshots = <<>>
    /\ now = 0
    /\ run = Idle
    /\ last = Did("init")

SpecMerge == InitMerge /\ [][NextMerge]_vars


(* main.py: run_daily_scrape *)

\* [1/3] scrape_indeed is called
DailyScrapeIndeed ==
    /\ last.op = "init"
    /\ StartRun("indeed", Cardinality(Sources))

\* [2/3] scrape_indeed has returned its stats: scrape_fractionaljobs is called
DailyScrapeFractionalJobs ==
    /\ last.op = "finish" /\ Len(logs) = 1
    /\ StartRun("fractionaljobs", Cardinality(Sources))

\* (mutant) the snapshot is taken once a run is over, however it ended
DailyCreateSnapshotAnyOutcome ==
    /\ Len(logs) >= 1
    /\ CreateDailySnapshot(MaxSnapshots)

\* [3/3] scrape_fractionaljobs has returned its stats: create_daily_snapshot
DailyCreateSnapshot ==
    /\ last.op = "finish" /\ Len(logs) = Cardinality(Sources)
    /\ CreateDailySnapshot(MaxSnapshots)

\* the steps inside scrape_*, also those that end it by an exception (which
\* run_daily_scrape does not catch: the workflow is over)
DailyRunStep ==
    /\ run.pc = "running"
    /\ \/ RunStep
       \/ \E stage \in AbortStages : AbortRun(stage)

\* one invocation of run_daily_scrape
NextDaily ==
    \/ DailyScrapeIndeed
    \/ DailyScrapeFractionalJobs
    \/ DailyCreateSnapshot
    \/ DailyRunStep

SpecDaily == Init /\ [][NextDaily]_vars


-----------------------------------------------------------------------------
(* Two scrape runs at the same time: two processes, each with its own       *)
(* session on the one database.  Under SpecConc the variable run holds the  *)
(* locals of both, and last the table as it was before them.  A step is one *)
(* statement that reaches the database: the query of _upsert_job, its       *)
(* commit, and the staleness step with the commit of the log.               *)

Procs == {1, 2}

ConcIdle ==
    [pc |-> "idle", source |-> NULL, found |-> 0, new |-> 0, updated |-> 0,
     errors |-> 0, deactivated |-> 0, seen_ids |-> {}, log |-> 0,
     fed |-> <<>>, job_dict |-> {}, existing |-> {}]

\* what the source of a run may yield next, for the process of salt seed: the
\* entry of seen_ids and the result of job_to_db_dict (empty when it raises)
Yields(src, seed, t) ==
    IF src = "indeed"
    THEN {[seen |-> job.job_url,
           dicts |-> IF IndeedDictRaises(job) THEN {} ELSE {IndeedDict(job, seed, t)}] :
             job \in IndeedRaws}
    ELSE {[seen |-> job.source_id, dicts |-> {FjDict(job, t)}] : job \in FjRaws}

\* _upsert_job after its query returned `existing`: the table afterwards, and
\* whether the record is new, updated or raised.  The unique index
\* idx_source_source_id rejects the insert of a key that is in the table by now
WriteJob(rows, existing, job_dict, t, id) ==
    IF existing # {}
    THEN LET e == CHOOSE r \in existing : TRUE
         IN [rows |-> {r \in rows : r.id # e.id} \cup {UpdateRow(e, job_dict, t)},
             ret |-> "updated"]
    ELSE IF ConstructorRaises(job_dict) THEN [rows |-> rows, ret |-> "error"]
    ELSE IF Lookup(rows, job_dict.source, job_dict.source_id) # {}
         THEN [rows |-> rows, ret |-> "error"]
         ELSE [rows |-> rows \cup {NewRow(job_dict, id)}, ret |-> "new"]

\* some other process is between the query and the commit of an upsert
Overlaps(p) == \E q \in Procs \ {p} : run[q].pc = "looked"

ConcStart(p, src) ==
    /\ run[p].pc = "idle"
    /\ logs' = Append(logs, NewLog(src, now))
    /\ run' = [run EXCEPT ![p] = [ConcIdle EXCEPT !.pc = "loop", !.source = src,
                                                  !.log = Len(logs) + 1]]
    /\ last' = [last EXCEPT !.op = "start"]
    /\ UNCHANGED <<store, nextId, snapshots, compSnapshots, now>>

\* the source yields a listing: job_to_db_dict, and the query of _upsert_job
ConcLookup(p, item) ==
    /\ run[p].pc = "loop"
    /\ Len(run[p].fed) < MaxConcFeed
    /\ IF item.dicts = {}
       THEN run' = [run EXCEPT ![p].found = @ + 1, ![p].errors = @ + 1,
                               ![p].seen_ids = @ \cup {item.seen},
                               ![p].fed = Append(@, item)]
       ELSE LET job_dict == CHOOSE d \in item.dicts : TRUE
            IN run' = [run EXCEPT ![p].found = @ + 1,
                                  ![p].seen_ids = @ \cup {item.seen},
                                  ![p].fed = Append(@, item),
                                  ![p].pc = "looked",
                                  ![p].job_dict = item.dicts,
                                  ![p].existing =
                                      Lookup(store, job_dict.source, job_dict.source_id)]
    /\ last' = [last EXCEPT !.op = "lookup", !.overlap = @ \/ Overlaps(p)]
    /\ UNCHANGED <<store, nextId, logs, snapshots, compSnapshots, now>>

\* the rest of _upsert_job: the update or the insert, and the commit
ConcWrite(p) ==
    /\ run[p].pc = "looked"
    /\ LET res == WriteJob(store, run[p].existing,
                           CHOOSE d \in run[p].job_dict : TRUE, now, nextId)
       IN /\ store' = res.rows
          /\ nextId' = IF res.ret = "new" THEN nextId + 1 ELSE nextId
          /\ run' = [run EXCEPT ![p].pc = "loop",
                                ![p].new = IF res.ret = "new" THEN @ + 1 ELSE @,
                                ![p].updated = IF res.ret = "updated" THEN @ + 1 ELSE @,
                                ![p].errors = IF res.ret = "error" THEN @ + 1 ELSE @,
                                ![p].job_dict = {}, ![p].existing = {}]
    /\ last' = [last EXCEPT !.op = "write", !.overlap = @ \/ Overlaps(p)]
    /\ UNCHANGED <<logs, snapshots, compSnapshots, now>>

\* the source is exhausted: _deactivate_stale_jobs, _log_scrape_end
ConcFinish(p) ==
    /\ run[p].pc = "loop"
    /\ LET stale == StaleJobs(store, run[p].source, run[p].seen_ids, now)
       IN /\ store' = Deactivate(store, stale)
          /\ logs' = [logs EXCEPT ![run[p].log] =
                        EndLog(@, now, "success", run[p].found, run[p].new,
                               run[p].updated, Cardinality(stale), NULL)]
          /\ run' = [run EXCEPT ![p].pc = "done",
                                ![p].deactivated = Cardinality(stale)]
    /\ last' = [last EXCEPT !.op = "finish", !.overlap = @ \/ Overlaps(p)]
    /\ UNCHANGED <<nextId, snapshots, compSnapshots, now>>

NextConc ==
    \E p \in Procs :
        \/ \E src \in Sources : ConcStart(p, src)
        \/ \E item \in Yields(run[p].source, p, now) : ConcLookup(p, item)
        \/ ConcWrite(p)
        \/ ConcFinish(p)

\* the runs start 58 hours after the stored rows were last seen, or at once
InitConc ==
    /\ store \in {{}, StoredRows}
    /\ nextId = 4
    /\ logs = <<>>
    /\ snapshots = <<>>
    /\ compSnapshots = <<>>
    /\ now \in {0, 58}
    /\ run = [p \in Procs |-> ConcIdle]
    /\ last = [op |-> "init", store0 |-> store, overlap |-> FALSE]

SpecConc == InitConc /\ [][NextConc]_vars


\* a run of scrape_<src> with the database to itself: its listings one after
\* the other through _upsert_job, then the staleness step
RECURSIVE ProcessListings(_, _, _)
ProcessListings(acc, feed, t) ==
    IF feed = <<>> THEN acc
    ELSE LET item == Head(feed) IN
         IF item.dicts = {}
         THEN ProcessListings([acc EXCEPT !.found = @ + 1, !.errors = @ + 1,
                                          !.seen_ids = @ \cup {item.seen}],
                              Tail(feed), t)
         ELSE LET res == UpsertJob(acc.rows, CHOOSE d \in item.dicts : TRUE, t, acc.id)
              IN ProcessListings(
                   [acc EXCEPT !.rows = res.rows,
                               !.id = IF res.is_new THEN @ + 1 ELSE @,
                               !.found = @ + 1,
                               !.seen_ids = @ \cup {item.seen},
                               !.new = IF res.is_new THEN @ + 1 ELSE @,
                               !.updated = IF ~res.is_new /\ ~res.raised THEN @ + 1 ELSE @,
                               !.errors = IF res.raised THEN @ + 1 ELSE @],
                   Tail(feed), t)

ScrapeAlone(rows, src, feed, t, id) ==
    LET acc == ProcessListings([rows |-> rows, id |-> id, found |-> 0, new |-> 0,
                                updated |-> 0, errors |-> 0, seen_ids |-> {}],
                               feed, t)
        stale == StaleJobs(acc.rows, src, acc.seen_ids, t)
    IN [rows |-> Deactivate(acc.rows, stale), id |-> acc.id,
        found |-> acc.found, new |-> acc.new, updated |-> acc.updated,
        errors |-> acc.errors, deactivated |-> Cardinality(stale)]

\* the counts a run reports
Counts(r) ==
    [found |-> r.found, new |-> r.new, updated |-> r.updated,
     errors |-> r.errors, deactivated |-> r.deactivated]

-----------------------------------------------------------------------------
(* Properties *)

\* the last step ran job_to_db_dict and _upsert_job for a listing
Processed == last.op = "process" /\ last.dict # {}
TheDict == CHOOSE d \in last.dict : TRUE
ThePrev == CHOOSE r \in last.prev : TRUE
\* the rows that now carry the key of the listing the last step processed
TheRows == Lookup(store, last.source, last.source_id)

\* the step that ends a run through _deactivate_stale_jobs and 'success'
FinishStep == run.pc = "running" /\ last'.op = "finish"

\* C1: no two persisted listings share the same (source, source_id)
C1_NaturalKeyUnique ==
    \A r1, r2 \in store : Key(r1) = Key(r2) => r1 = r2

C1_Witness ==
    /\ Processed /\ last.ret = "updated"
    /\ Len(logs) = 2
    /\ Cardinality(TheRows) = 1
    /\ \E r \in store : ~r.is_active

\* C2: every ingestion of a listing leaves exactly one row for its key; the
\* first one (no row before) is counted new, a later one (the row is there) is
\* counted updated and leaves the row active, last_seen not earlier than before
C2_IdempotentIngest ==
    Processed =>
        /\ Cardinality(TheRows) = 1
        /\ last.prev = {} => last.ret = "new"
        /\ last.prev # {} =>
               /\ last.ret = "updated"
               /\ \A r \in TheRows : r.is_active /\ r.last_seen >= ThePrev.last_seen

\* C3: an upsert of a key that is not in the store adds one row for it, active,
\* date_scraped = last_seen = the time of the upsert, and is counted new
C3_InsertAbsent ==
    (Processed /\ last.prev = {}) =>
        /\ last.ret = "new"
        /\ Cardinality(TheRows) = 1
        /\ \A r \in TheRows :
               r.is_active /\ r.date_scraped = now /\ r.last_seen = now

\* the keys of the incoming dictionary that the update merges into the row
\* (date_scraped, the first-seen time, is the one it leaves out)
MergedKeys == (DOMAIN TheDict \cap FractionalJobAttrs) \ {"id", "date_scraped"}

C5_ResightReactivates ==
    /\ (Processed /\ last.ret = "updated" /\ \E p \in last.prev : ~p.is_active) =>
           \A r \in TheRows : r.is_active /\ r.last_seen = now
    /\ last.op \in {"finish", "fail"} =>
           \A r \in store :
               (r.source = last.source /\ r.source_id \in run.reactivated) => r.is_active

\* C6: no step changes the date_scraped of a row (or removes the row)
C6_DateScrapedImmutable ==
    [][\A r \in store : \E r2 \in store' :
            r2.id = r.id /\ r2.date_scraped = r.date_scraped]_vars

C6_Witness ==
    /\ last.ret = "updated"
    /\ Len(snapshots) = 1
    /\ \A r \in TheRows : TheDict.date_scraped # r.date_scraped

\* C7: the staleness step of a run deactivates no listing whose natural key the
\* run sighted
C7_SightedNotDeactivated ==
    last.op = "finish" => \A r \in last.prev : r.source_id \notin run.sighted

\* C8: when a run for a source completes, each of its active listings that the
\* run did not sight is inactive if its last_seen is more than 48 hours old
\* (50 hours), and still active otherwise (10 hours)
C8_Staleness ==
    [][FinishStep =>
          \A r \in store :
              (r.source = run.source /\ r.is_active /\ r.source_id \notin run.sighted) =>
                  \E r2 \in store' :
                      /\ r2.id = r.id
                      /\ now - r.last_seen > StaleHours => ~r2.is_active
                      /\ now - r.last_seen <= StaleHours => r2.is_active]_vars

C8_Witness ==
    /\ last.op = "finish"
    /\ run.found = 0
    /\ \E r \in last.prev : now - r.last_seen = 50
    /\ \A r \in last.prev : \E r2 \in store : r2.id = r.id /\ ~r2.is_active

\* C9: a listing goes from active to inactive only in the staleness step of a
\* run for its own source, only when its last_seen is older than the threshold,
\* and with no other field changed; a run leaves the listings of the other
\* source as they are, and so does a snapshot
C9_OnlyStalenessDeactivates ==
    [][\A r \in store : \E r2 \in store' :
            /\ r2.id = r.id
            /\ (r.is_active /\ ~r2.is_active) =>
                   /\ FinishStep
                   /\ r.source = run.source
                   /\ r.last_seen < now - StaleHours
                   /\ r2 = [r EXCEPT !.is_active = FALSE]
            /\ (run.pc = "running" /\ r.source # run.source) => r2 = r
            /\ snapshots' # snapshots => r2 = r]_vars

C9_Witness ==
    /\ last.op = "finish"
    /\ last.prev # {}
    /\ Len(snapshots) = 1
    /\ \E r \in store :
           r.source # last.source /\ r.is_active /\ r.last_seen < now - StaleHours

C11_FatalMarksFailed ==
    last.op \in {"fail", "abort"} =>
        /\ logs[run.log].status = "failed"
        /\ logs[run.log].error_message = "error"
        /\ run.pc = "idle"

\* C12: a log is created in status running before any listing is processed, it
\* is running only while its run is in progress, and once it has left status
\* running it is never modified
C12_LogLifecycle ==
    /\ [](\A i \in DOMAIN logs :
            logs[i].status = "running" => (run.pc = "running" /\ run.log = i))
    /\ [][/\ Len(logs') > Len(logs) =>
                (logs'[Len(logs')].status = "running" /\ run'.found = 0)
          /\ \A i \in DOMAIN logs :
                /\ logs[i].status # "running" => logs'[i] = logs[i]
                /\ logs'[i].status \in {"running", "success", "failed"}]_vars

\* C13: the log of a finalized run, successful or failed, carries the numbers
\* of records the source yielded, rows inserted, rows updated, rows deactivated
\* and records skipped in that run
C13_LogReportsCounts ==
    last.op \in {"finish", "fail"} =>
        /\ logs[run.log].listings_found = run.found
        /\ logs[run.log].listings_new = run.new
        /\ logs[run.log].listings_updated = run.updated
        /\ logs[run.log].listings_deactivated = Cardinality(last.prev)
        /\ logs[run.log].error_count = run.errors

RECURSIVE SumCounts(_)
\* sum(counts.values())
SumCounts(counts) ==
    IF DOMAIN counts = {} THEN 0
    ELSE LET l == CHOOSE x \in DOMAIN counts : TRUE
         IN counts[l] + SumCounts([k \in DOMAIN counts \ {l} |-> counts[k]])

\* C14: in every daily snapshot the by_function counts, the by_seniority counts
\* and the by_location_type counts each add up to total_active
C14_SnapshotPartition ==
    \A i \in DOMAIN snapshots :
        /\ SumCounts(snapshots[i].by_function) = snapshots[i].total_active
        /\ SumCounts(snapshots[i].by_seniority) = snapshots[i].total_active
        /\ SumCounts(snapshots[i].by_location_type) = snapshots[i].total_active

C14_Witness ==
    /\ last.op = "snapshot"
    /\ \E r \in store : r.is_active /\ r.function_category = NULL
    /\ \E r \in store : r.is_active /\ r.seniority_tier = NULL /\ r.location_type = NULL
    /\ \E r \in store : ~r.is_active
    /\ snapshots[Len(snapshots)].total_active = 2
    /\ DOMAIN snapshots[Len(snapshots)].by_function = {"finance", "other"}

\* C15: the store holds one daily snapshot per snapshot date and one
\* compensation snapshot per (snapshot date, function category)
C15_SnapshotIdempotent ==
    /\ \A i, j \in DOMAIN snapshots :
           snapshots[i].snapshot_date = snapshots[j].snapshot_date => i = j
    /\ \A i, j \in DOMAIN compSnapshots :
           (/\ compSnapshots[i].snapshot_date = compSnapshots[j].snapshot_date
            /\ compSnapshots[i].function_category = compSnapshots[j].function_category)
               => i = j

\* C16: the listings a run deactivates are counted in removed_today of the
\* snapshot of the day after, whose window is the day of the run
C16_RemovedToday ==
    last.op = "finish" =>
        DailySnapshot(store, Midnight(now) + HoursPerDay).removed_today
            >= Cardinality(last.prev)

\* C17: create_compensation_snapshot completes without error, and writes a row
\* for a function category exactly when at least 3 active listings of that
\* category have a known hourly_rate_min
C17_MinimumSample ==
    last.op \in {"comp_snapshot", "comp_error"} =>
        /\ last.op = "comp_snapshot"
        /\ \A func \in {"finance", "other"} :
               (\E row \in last.prev : row.function_category = func)
                   <=> Cardinality(FunctionJobs(store, func)) >= MinSample

\* the median of a sorted sequence, doubled
TwiceMedian(sorted) ==
    LET n == Len(sorted) IN
    IF n % 2 = 1 THEN 2 * sorted[(n + 1) \div 2]
    ELSE sorted[n \div 2] + sorted[(n \div 2) + 1]

\* C18: in every compensation snapshot row, hourly_rate_min_avg is the mean and
\* hourly_rate_median the median of hourly_rate_min over the sample_size
\* listings of the category, those with rate 0 included
C18_MeanAndMedian ==
    \A i \in DOMAIN compSnapshots :
        LET row == compSnapshots[i]
            jobs == FunctionJobs(store, row.function_category)
        IN /\ row.sample_size = Cardinality(jobs)
           /\ row.hourly_rate_min_avg[1] * row.sample_size
                  = SumRates(jobs) * row.hourly_rate_min_avg[2]
           /\ 2 * row.hourly_rate_median = TwiceMedian(SortedRates(jobs))

\* the orders of the labels as the specification gives them
ClaimedFunctionOrder ==
    <<"finance", "marketing", "sales", "product", "engineering", "operations",
      "people", "data", "legal">>
ClaimedSeniorityOrder == <<"c_level", "evp", "svp", "vp", "director", "head_of">>

\* some pattern of the table's entry for this label occurs in the text
Occurs(table, label, text) ==
    \E i \in DOMAIN table :
        table[i][1] = label /\ \E pattern \in table[i][2] : Contains(text, pattern)

\* the first label of the order that occurs in the text, else the default
FirstOf(order, table, text, default) ==
    LET hits == {i \in DOMAIN order : Occurs(table, order[i], text)} IN
    IF hits = {} THEN default
    ELSE order[CHOOSE i \in hits : \A j \in hits : i <= j]

\* C19: detect_function and detect_seniority return the first label, in the
\* stated order, one of whose patterns occurs in the lowercased (space-padded)
\* title, other / unknown when none does; a title with cfo, chief financial or
\* controller in any letter case is finance
C19_FirstMatchWins ==
    last.op = "detect" =>
        /\ last.function_category =
               FirstOf(ClaimedFunctionOrder, FUNCTION_PATTERNS,
                       ToLower(last.title), "other")
        /\ last.seniority_tier =
               FirstOf(ClaimedSeniorityOrder, SENIORITY_PATTERNS,
                       <<" ">> \o ToLower(last.title) \o <<" ">>, "unknown")
        /\ (\E pattern \in {<<"c", "f", "o">>,
                              <<"c", "h", "i", "e", "f", " ", "f", "i", "n", "a", "n", "c", "i", "a", "l">>,
                              <<"c", "o", "n", "t", "r", "o", "l", "l", "e", "r">>} :
                Contains(ToLower(last.title), pattern))
               => last.function_category = "finance"

C19_Witness ==
    /\ last.op = "detect"
    /\ Contains(last.title, <<"C", "F", "O">>)
    /\ Contains(last.title, <<"M", "a", "r", "k", "e", "t", "i", "n", "g">>)
    /\ last.function_category = "finance"
    /\ last.seniority_tier = "c_level"

\* a match is accepted: two numbers, or one within 1..50
Accepted(groups) ==
    Len(groups) = 2 \/ (Len(groups) = 1 /\ 1 <= groups[1] /\ groups[1] <= 50)

\* C20: extract_hours returns the result of the first pattern, in list order,
\* whose match is accepted: (min, max) of a two-number match, (n, n) of a
\* single number n with 1 <= n <= 50; nothing when there is none; so
\* '120 hrs' gives nothing and 'up to 25 hours' gives (25, 25)
C20_ExtractHours ==
    last.op = "extract_hours" =>
        LET s == ToLower(last.text)
            hits == {k \in 1..7 : Accepted(Search(k, s))}
            first == CHOOSE k \in hits : \A j \in hits : k <= j
        IN /\ hits = {} => last.ret = <<>>
           /\ hits # {} =>
                  last.ret = IF Len(Search(first, s)) = 2 THEN Search(first, s)
                             ELSE <<Search(first, s)[1], Search(first, s)[1]>>
           /\ last.text = <<"1", "2", "0", " ", "h", "r", "s">> => last.ret = <<>>
           /\ last.text = <<"u", "p", " ", "t", "o", " ", "2", "5", " ", "h", "o", "u", "r", "s">>
                  => last.ret = <<25, 25>>
           /\ last.text = <<"1", "0", "-", "2", "0", " ", "h", "r", "s">> => last.ret = <<10, 20>>

\* a rejected single number, then a later pattern that is accepted
C20_Witness ==
    /\ last.op = "extract_hours"
    /\ Search(2, ToLower(last.text)) = <<120>>
    /\ Search(4, ToLower(last.text)) = <<25>>
    /\ last.ret = <<25, 25>>


\* the type the decision table of the claim gives: keyword (or interval)
\* first, else the magnitude of the maximum amount
ClaimedCompType(hour, month, year, max_val) ==
    IF hour THEN "hourly"
    ELSE IF month THEN "monthly"
    ELSE IF year THEN "annual"
    ELSE IF max_val < HourlyBelow THEN "hourly"
    ELSE IF max_val < MonthlyBelow THEN "monthly"
    ELSE "annual"

\* the string carries an amount: it has a digit
AmountFound(comp_string) == \E i \in DOMAIN comp_string : IsDigit(comp_string[i])

\* C21: the pay type is hourly for an hour keyword (or hourly interval), else
\* monthly for a month keyword, else annual for a year keyword, else inferred
\* from the maximum amount (hourly below 1000, monthly below 50000, annual
\* otherwise, for every amount >= 0), in parse_compensation and in the Indeed
\* normalizer alike; not_disclosed is returned exactly when no amount is found
C21_CompType ==
    /\ last.op = "parse_compensation" =>
        /\ (last.ret.comp_type = "not_disclosed") <=> ~AmountFound(last.text)
        /\ last.ret.comp_max # {} =>
             last.ret.comp_type =
                 ClaimedCompType(AnyWord(HourWords, CompLower(last.text)),
                                 AnyWord(MonthWords, CompLower(last.text)),
                                 AnyWord(YearWords, CompLower(last.text)),
                                 CHOOSE x \in last.ret.comp_max : TRUE)
    /\ last.op = "indeed_comp_type" =>
        /\ (last.ret = "not_disclosed") <=>
               (last.min_amount = {} /\ last.max_amount = {})
        /\ last.max_amount # {} =>
             last.ret =
                 ClaimedCompType(last.interval = "hourly",
                                 last.interval = "monthly",
                                 last.interval \in {"yearly", "annually"},
                                 CHOOSE x \in last.max_amount : TRUE)


\* the weekly hours the claim assumes: 15 when none are known, the midpoint
\* when both bounds are known, else the bound that is known
AssumedHours(hours_min, hours_max) ==
    IF hours_min = {} /\ hours_max = {} THEN QInt(DefaultHours)
    ELSE IF hours_min # {} /\ hours_max # {}
         THEN <<(CHOOSE x \in hours_min : TRUE) + (CHOOSE x \in hours_max : TRUE), 2>>
         ELSE QInt(CHOOSE x \in hours_min \cup hours_max : TRUE)

\* C22: for a positive hourly rate r and assumed weekly hours h > 0 (15 when
\* no hours are known, the midpoint when both are), normalizing (hourly, r)
\* gives the monthly retainer r * h * 4.33, and normalizing that retainer as
\* monthly with the same hours gives back r; an annual amount is divided by
\* 2080 and by 12 whatever the hours
C22_NormalizeRoundTrip ==
    last.op = "normalize_compensation" /\ TruthyQ(last.comp_min)
    /\ last.comp_max = last.comp_min
    /\ AssumedHours(last.hours_min, last.hours_max)[1] > 0 =>
        LET r == CHOOSE q \in last.comp_min : TRUE
            h == AssumedHours(last.hours_min, last.hours_max)
            back == NormalizeCompensation("monthly", last.ret.monthly_min,
                                          last.ret.monthly_max,
                                          last.hours_min, last.hours_max)
        IN /\ last.comp_type = "hourly" =>
                /\ \E m \in last.ret.monthly_min :
                       QEq(m, <<r[1] * h[1] * WeeksPerMonth[1],
                                r[2] * h[2] * WeeksPerMonth[2]>>)
                /\ \E b \in back.hourly_min : QEq(b, r)
                /\ \E b \in back.hourly_max : QEq(b, r)
           /\ last.comp_type = "annual" =>
                /\ \E x \in last.ret.hourly_min : QEq(x, <<r[1], r[2] * HoursPerYear>>)
                /\ \E x \in last.ret.monthly_min : QEq(x, <<r[1], r[2] * MonthsPerYear>>)


\* the two-letter code of the state with this full name
PostalCode(name) ==
    ToUpper(US_STATE_ABBREVS[CHOOSE i \in DOMAIN US_STATES : US_STATES[i] = ToLower(name)])

\* C24: for a remote listing without worldwide or US-only phrasing whose
\* location text is the full name of a US state, detect_location_type returns
\* state_specific with the two-letter code of that same state, for each of
\* the 50 states
C24_StateOfFullName ==
    last.op = "detect_location_type" /\ last.location_raw \in StateNames
    /\ last.ret.location_type = "remote"
    /\ ~AnyWord(WorldwideWords \cup UsaOnlyWords,
                ToLower(last.location_raw) \o <<" ">> \o ToLower(last.description)) =>
        /\ last.ret.location_restriction = "state_specific"
        /\ last.ret.location_state = PostalCode(last.location_raw)


\* C23: for every persisted listing, after any sequence of upserts of its
\* key, location_state is present only when location_restriction is
\* state_specific
C23_StateOnlyWhenStateSpecific ==
    \A r \in store :
        "location_state" \in DOMAIN r /\ r.location_state # NoState =>
            r.location_restriction = "state_specific"


\* C29: for every persisted listing, after any sequence of upserts of its
\* key, a compensation_type of not_disclosed comes with no compensation_min
\* or _max, no hourly_rate_min or _max and no monthly_retainer_min or _max
C29_NotDisclosedHasNoAmounts ==
    \A r \in store :
        "compensation_type" \in DOMAIN r /\ r.compensation_type = "not_disclosed" =>
            \A k \in NumberKeys : r[k] = {}


\* C27: every key of the dictionary job_to_db_dict hands to _upsert_job is an
\* attribute of FractionalJob, so the insert of a key not seen before never
\* raises and a first sighting is never counted as a record error
C27_DictKeysAreAttributes ==
    Processed =>
        /\ DictKeys(last.source) \subseteq FractionalJobColumns
        /\ DOMAIN TheDict \subseteq FractionalJobAttrs
        /\ last.prev = {} => last.ret # "error"

\* C28: the same Indeed posting (same job_url) gets the same source_id in
\* runs of different processes, with or without 'jk=' in the url, and the
\* value the run records in its seen-id set is that source_id
C28_StableSourceId ==
    (Processed /\ last.source = "indeed") =>
        /\ \A url \in IndeedUrls :
               (\E seed \in HashSeeds : IndeedSourceId(url, seed) = last.source_id) =>
                   \A seed \in HashSeeds : IndeedSourceId(url, seed) = last.source_id
        /\ last.source_id \in run.seen_ids


\* C26: in the daily workflow the snapshot is written only after the run of
\* indeed and then the run of fractionaljobs have both finalized their logs
\* (no run is in progress), and when either run fails fatally no snapshot is
\* written in that invocation
C26_SnapshotAfterIngestion ==
    /\ snapshots # <<>> =>
        /\ run.pc = "idle"
        /\ Len(logs) = Cardinality(Sources)
        /\ logs[1].source = "indeed" /\ logs[2].source = "fractionaljobs"
        /\ \A i \in DOMAIN logs : logs[i].status = "success"
    /\ (last.op \in {"fail", "abort"} \/ \E i \in DOMAIN logs : logs[i].status = "failed") =>
        snapshots = <<>>

\* both runs updated a listing and returned, and the snapshot was written
C26_Witness ==
    /\ Len(snapshots) = 1 /\ last.op = "snapshot"
    /\ Len(logs) = 2
    /\ logs[1].status = "success" /\ logs[1].listings_updated > 0
    /\ logs[2].status = "success" /\ logs[2].listings_updated > 0


BothDone == \A p \in Procs : run[p].pc = "done"

\* C25: two concurrent runs on different sources, however their lookups,
\* inserts, updates and staleness steps interleave, leave the listing store and
\* the counts of each run as the two runs leave them one after the other, in
\* either order.
C25_DisjointSourcesSafe ==
    (BothDone /\ run[1].source # run[2].source) =>
        \A p \in Procs :
            LET q == CHOOSE o \in Procs : o # p
                first == ScrapeAlone(last.store0, run[p].source, run[p].fed, now, 4)
                second == ScrapeAlone(first.rows, run[q].source, run[q].fed, now, first.id)
            IN /\ store = second.rows
               /\ Counts(run[p]) = Counts(first)
               /\ Counts(run[q]) = Counts(second)

C25_Witness ==
    /\ BothDone
    /\ run[1].source # run[2].source
    /\ last.overlap
    /\ \E p \in Procs : run[p].updated > 0
    /\ \E p \in Procs : run[p].deactivated > 0
    /\ store # last.store0


\* both runs are over; they were of one source, interleaved, and each sighted
\* the same key, which the table did not hold before them
SameUnseenKey ==
    /\ BothDone
    /\ run[1].source = run[2].source
    /\ last.overlap
    /\ \A p \in Procs : Len(run[p].fed) = 1 /\ run[p].fed[1].dicts # {}
    /\ \E d1 \in run[1].fed[1].dicts : \E d2 \in run[2].fed[1].dicts :
          /\ d1.source_id = d2.source_id
          /\ Lookup(last.store0, d1.source, d1.source_id) = {}

\* C30: when two interleaved runs of the same source each sight the same key, which the
\* table did not hold before them, the table ends with exactly one row of that
\* key, neither run is marked failed, and together the runs count the key once
\* as new and once as updated.
C30_SameKeyOneRow ==
    SameUnseenKey =>
        LET key == CHOOSE d \in run[1].fed[1].dicts : TRUE IN
        /\ Cardinality(Lookup(store, key.source, key.source_id)) = 1
        /\ \A i \in 1..Len(logs) : logs[i].status # "failed"
        /\ run[1].new + run[2].new = 1
        /\ run[1].updated + run[2].updated = 1

====
